---- MODULE Spec2Model ----
(***************************************************************************)
(* A model of the transformer inference engine of backend/deepseek         *)
(* (model_fixed.py, kernel_fallback.py) and of the manager that drives it  *)
(* (main.py, main_fixed.py).                                               *)
(*                                                                         *)
(* Tensors are modelled by their index sets and by what is stored at each  *)
(* index.  Python indices are kept (0-based): a tensor dimension of size n *)
(* is the set 0..n-1, and a slice a[lo:hi] is the index set Slice(lo,hi,n).*)
(* Real numbers are exact rationals <<num, den>> with den > 0.             *)
(***************************************************************************)
EXTENDS Integers, Sequences, FiniteSets, TLC

VARIABLES
    tf,        \* the Transformer instance: construction state, args, freqs_cis buffer
    k_cache,   \* per layer: MLA.k_cache[row][pos], 0 = the zeros of construction, c = written by call c
    v_cache,   \* per layer: MLA.v_cache[row][pos]
    ncalls,    \* number of Transformer.forward calls made so far
    last,      \* what the last Transformer.forward call did
    rope,      \* precompute_freqs_cis applied to drawn arguments
    gate,      \* Gate.forward applied to a drawn configuration and score vector
    quant,     \* act_quant / weight_dequant applied to a drawn tensor
    gen,       \* a generate_text call and the generation loop it drives
    mla,       \* the two attention strategies run side by side on drawn weights
    lin,       \* a call of linear(x, weight, bias) in a drawn import environment
    mgr,       \* a manager instance (main.py or main_fixed.py) and its callers
    conf,      \* construction of a model from a drawn configuration
    coll,      \* the workers of one parallel forward and the collectives they issue
    shard      \* the sharded embedding and MoE of one forward, summed over the workers

vars == <<tf, k_cache, v_cache, ncalls, last, rope, gate, quant, gen, mla, lin, mgr, conf, coll, shard>>

(***************************************************************************)
(* Bounds of the model.                                                    *)
(***************************************************************************)
MaxBatch == 2      \* max_batch_size is drawn from 1..MaxBatch
MaxSeqLen == 4     \* max_seq_len is drawn from MaxSeqLen-1..MaxSeqLen
MaxCalls == 2      \* forward calls per instance
NLayers == 2       \* n_layers
MaxVocab == 4      \* vocab_size is drawn from MaxVocab-1..MaxVocab
MaxWorld == 2      \* world_size is drawn from 1..MaxWorld
OrigSeqLen == 3    \* original_seq_len of the instance
MaxRopePairs == 2  \* qk_rope_head_dim is drawn from {2, 4, .., 2*MaxRopePairs}
MaxRopeFactor == 3 \* rope_factor is drawn from 2..MaxRopeFactor
MaxRopeSeq == 3    \* max_seq_len and original_seq_len of the rotary scenario are drawn from 1..MaxRopeSeq

(***************************************************************************)
(* Helpers.                                                                *)
(***************************************************************************)
Min(a, b) == IF a < b THEN a ELSE b
Max(a, b) == IF a > b THEN a ELSE b
Abs(a) == IF a < 0 THEN -a ELSE a

\* Python's a[lo:hi] on a dimension of size n, for 0 <= lo: the indices it selects.
Slice(lo, hi, n) == {i \in 0..(n-1) : lo <= i /\ i < hi}

BroadcastableAlways(v, t) == TRUE

\* torch's rule for writing (or adding in place) a value dimension of size v
\* into a target dimension of size t: equal, or the value broadcasts from 1.
Broadcastable(v, t) == v = t \/ v = 1

\* floor and ceiling of the real number n/2
FloorHalf(n) == IF n >= 0 THEN n \div 2 ELSE -((-n + 1) \div 2)
CeilHalf(n) == -FloorHalf(-n)

(***************************************************************************)
(* Rotary frequency table (precompute_freqs_cis).                          *)
(*                                                                         *)
(* The raw frequency of rotary pair i is base^(-2i/dim), an irrational     *)
(* number: entry i of freqs is kept as the rational coefficient c with     *)
(* freqs[i] = c * base^(-2i/dim).  find_correction_dim is a logarithm of   *)
(* its arguments; its two real results are inputs of the model, given in   *)
(* halves (corr_low2/2, corr_high2/2).                                     *)
(***************************************************************************)
find_correction_range(corr_low2, corr_high2, dim) ==
    <<Max(FloorHalf(corr_low2), 0), Min(CeilHalf(corr_high2), dim - 1)>>

\* linear_ramp_factor(min_val, max_val, n): entry i is the rational
\* clamp((i - min_val) / (max_val - min_val), 0, 1), in thousandths because
\* of max_val += 0.001 when the two are equal.
linear_ramp_factor(min_val, max_val, n) ==
    LET mx == IF min_val = max_val THEN 1000 * max_val + 1 ELSE 1000 * max_val
        d0 == mx - 1000 * min_val
        sg == IF d0 < 0 THEN -1 ELSE 1
        den == sg * d0
    IN [i \in 0..(n-1) |->
          LET num == sg * (1000 * i - 1000 * min_val)
          IN IF num <= 0 THEN <<0, den>>
             ELSE IF num >= den THEN <<den, den>>
             ELSE <<num, den>>]

\* the blend of line 205 for one rotary pair with ramp value rn/rd:
\* freqs / factor * (1 - smooth) + freqs * smooth with smooth = 1 - rn/rd
Blend(ramp, factor) ==
    <<ramp[1] + factor * (ramp[2] - ramp[1]), factor * ramp[2]>>

UseCorrectionAlways(seqlen, original_seq_len) == TRUE

\* the condition of line 202
UseCorrection(seqlen, original_seq_len) == seqlen > original_seq_len

\* number of entries of torch.arange(0, dim, 2)
NPairs(dim) == (dim + 1) \div 2

\* freqs after lines 201-205, as coefficients of the raw frequencies
rope_freqs(a) ==
    LET dim == a.qk_rope_head_dim
        raw == [i \in 0..(NPairs(dim) - 1) |-> <<1, 1>>]
    IN IF UseCorrection(a.max_seq_len, a.original_seq_len)
       THEN LET lh == find_correction_range(a.corr_low2, a.corr_high2, dim)
                ramp == linear_ramp_factor(lh[1], lh[2], dim \div 2)
            IN [i \in DOMAIN raw |-> Blend(ramp[i], a.rope_factor)]
       ELSE raw

TableRowsOffByOne(seqlen) == seqlen + 1

\* torch.arange(seqlen): the number of positions of the table
TableRows(seqlen) == seqlen

\* lines 207-209: row t holds the angles t * freqs[i] of the unit rotations
precompute_freqs_cis(a) ==
    LET freqs == rope_freqs(a)
    IN [t \in 0..(TableRows(a.max_seq_len) - 1) |->
          [i \in DOMAIN freqs |-> <<t * freqs[i][1], freqs[i][2]>>]]

NRows(table) == Cardinality(DOMAIN table)
NCols(table) == IF DOMAIN table = {} THEN 0 ELSE Cardinality(DOMAIN table[0])

(***************************************************************************)
(* Transformer: construction.                                              *)
(***************************************************************************)
NoTable == [t \in {} |-> 0]
NoCache == [l \in {} |-> 0]

NoArgs ==
    [max_batch_size |-> 0, max_seq_len |-> 0, vocab_size |-> 0, n_layers |-> 0,
     qk_rope_head_dim |-> 0, original_seq_len |-> 0, rope_factor |-> 0,
     corr_low2 |-> 0, corr_high2 |-> 0, world_size |-> 0]

\* the ModelArgs an instance is constructed from, with the world size that
\* torch.distributed reports at construction (lines 439-441)
ArgsSet ==
    [max_batch_size : 1..MaxBatch,
     max_seq_len : (MaxSeqLen - 1)..MaxSeqLen,
     vocab_size : (MaxVocab - 1)..MaxVocab,
     n_layers : {NLayers},
     qk_rope_head_dim : {2 * n : n \in (MaxRopePairs - 1)..MaxRopePairs},
     original_seq_len : {OrigSeqLen},
     rope_factor : {MaxRopeFactor},
     corr_low2 : {1},
     corr_high2 : {3},
     world_size : 1..MaxWorld]

\* ParallelEmbedding.__init__ (line 74) and ColumnParallelLinear.__init__ of
\* the head (line 145): assert vocab_size % world_size == 0 when sharded
ShardAssertsHold(a) == a.world_size = 1 \/ a.vocab_size % a.world_size = 0

\* MLA.__init__, lines 253-254: torch.zeros(max_batch_size, max_seq_len, ..)
ZeroCache(a) == [r \in 0..(a.max_batch_size - 1) |-> [p \in 0..(a.max_seq_len - 1) |-> 0]]

NoLast ==
    [called |-> FALSE, id |-> 0, bsz |-> 0, start_pos |-> 0, seqlen |-> 0,
     err |-> "", layer |-> 0, scores |-> {}, attn |-> [i \in {} |-> {}],
     logits |-> [j \in {} |-> 0], logits_rows |-> 0, logits_pos |-> -1,
     mask_made |-> FALSE, session |-> 0]

Transformer_init(a) ==
    /\ tf.state = "uninit"
    /\ IF ShardAssertsHold(a)
       THEN /\ tf' = [state |-> "ready", args |-> a, freqs_cis |-> precompute_freqs_cis(a)]
            /\ k_cache' = [l \in 0..(a.n_layers - 1) |-> ZeroCache(a)]
            /\ v_cache' = [l \in 0..(a.n_layers - 1) |-> ZeroCache(a)]
       ELSE /\ tf' = [state |-> "failed", args |-> a, freqs_cis |-> NoTable]
            /\ UNCHANGED <<k_cache, v_cache>>
    /\ UNCHANGED <<ncalls, last, rope, gate, quant, gen, mla, lin, mgr, conf, coll, shard>>

(***************************************************************************)
(* Transformer.forward and MLA.forward (naive cache layout).               *)
(***************************************************************************)
\* line 470: torch.full((seqlen, seqlen), -inf).triu_(1); ninf holds the
\* (query, key) index pairs whose entry is -inf
CausalMask(seqlen) ==
    [present |-> TRUE, size |-> seqlen,
     ninf |-> {ij \in (0..(seqlen-1)) \X (0..(seqlen-1)) : ij[2] > ij[1]}]
NoMask == [present |-> FALSE, size |-> 0, ninf |-> {}]

\* lines 468-470
MakeMask(seqlen) == IF seqlen > 1 THEN CausalMask(seqlen) ELSE NoMask

WriteSliceWholeRows(buf, bsz, start_pos, end_pos, id) ==
    [r \in DOMAIN buf |-> [p \in DOMAIN buf[r] |-> IF r < bsz THEN id ELSE buf[r][p]]]

\* the cache buffer after buf[:bsz, start_pos:end_pos] = value of call id
WriteSlice(buf, bsz, start_pos, end_pos, id) ==
    LET rows == Slice(0, bsz, Cardinality(DOMAIN buf))
    IN [r \in DOMAIN buf |->
          [p \in DOMAIN buf[r] |->
              IF r \in rows /\ p \in Slice(start_pos, end_pos, Cardinality(DOMAIN buf[r]))
              THEN id ELSE buf[r][p]]]

ScoreKeysWholeBuffer(buf, end_pos) == DOMAIN buf[0]

\* the keys the scores of line 286 range over: k_cache[:bsz, :end_pos]
ScoreKeys(buf, end_pos) == Slice(0, end_pos, Cardinality(DOMAIN buf[0]))

ViewFitsAlways(freqs_rows, seqlen) == TRUE

\* apply_rotary_emb, line 216: freqs_cis.view(1, x.size(1), 1, x.size(-1))
\* needs as many rows of the table as the call has positions
ViewFits(freqs_rows, seqlen) == freqs_rows = seqlen

\* MLA.forward of one layer on its buffers kc, vc. c is the call:
\* [bsz, seqlen, start_pos, freqs_rows, mask, id].  The result names the
\* statement that raised ("" when none did) and the buffers as they are then.
MLA_forward(kc, vc, c) ==
    LET end_pos == c.start_pos + c.seqlen
        nrows == Cardinality(DOMAIN kc)
        ncols == Cardinality(DOMAIN kc[0])
        rotary_ok == ViewFits(c.freqs_rows, c.seqlen)
        \* lines 284-285: the value is [bsz, seqlen, ..], the target the slice
        write_ok == /\ Broadcastable(c.bsz, Cardinality(Slice(0, c.bsz, nrows)))
                    /\ Broadcastable(c.seqlen, Cardinality(Slice(c.start_pos, end_pos, ncols)))
        kc2 == WriteSlice(kc, c.bsz, c.start_pos, end_pos, c.id)
        vc2 == WriteSlice(vc, c.bsz, c.start_pos, end_pos, c.id)
        keys == ScoreKeys(kc2, end_pos)
        \* line 289: scores [bsz, seqlen, heads, keys] += mask [seqlen, 1, seqlen]
        mask_ok == \/ ~c.mask.present
                   \/ Broadcastable(c.mask.size, Cardinality(keys))
        \* lines 290-291: the keys each query gives a non-zero weight
        attn == [i \in 0..(c.seqlen - 1) |->
                   {t \in keys : ~(c.mask.present /\ <<i, t>> \in c.mask.ninf)}]
        none == [i \in {} |-> {}]
    IN IF ~rotary_ok
       THEN [err |-> "apply_rotary_emb", k |-> kc, v |-> vc, scores |-> {}, attn |-> none]
       ELSE IF ~write_ok
       THEN [err |-> "cache_write", k |-> kc, v |-> vc, scores |-> {}, attn |-> none]
       ELSE IF ~mask_ok
       THEN [err |-> "mask_add", k |-> kc2, v |-> vc2, scores |-> keys, attn |-> none]
       ELSE [err |-> "", k |-> kc2, v |-> vc2, scores |-> keys, attn |-> attn]

\* lines 472-473: the layers in order, stopping at the first that raises
RECURSIVE RunLayers(_, _, _)
RunLayers(l, acc, c) ==
    IF l = Cardinality(DOMAIN acc.k) \/ acc.err # ""
    THEN acc
    ELSE LET r == MLA_forward(acc.k[l], acc.v[l], c)
         IN RunLayers(l + 1,
                [err |-> r.err, layer |-> IF r.err = "" THEN l + 1 ELSE l,
                 k |-> [acc.k EXCEPT ![l] = r.k], v |-> [acc.v EXCEPT ![l] = r.v],
                 scores |-> r.scores, attn |-> r.attn], c)

FirstIndex(n) == 0

\* h[:, -1] of line 475 on a dimension of size n
LastIndex(n) == n - 1

\* ColumnParallelLinear.__init__, lines 142-146
part_out_features(out_features, world_size) ==
    IF world_size = 1 THEN out_features ELSE out_features \div world_size

\* lines 478-481: worker r's logits are those of vocabulary ids
\* r*part .. (r+1)*part-1; all_gather lists them by rank and cat joins them.
\* Entry j of the result is the vocabulary id whose logit is at index j.
GatherLogits(part, world_size) ==
    [j \in 0..(world_size * part - 1) |-> (j \div part) * part + (j % part)]

\* lines 476-483
HeadLogits(vocab_size, world_size) ==
    LET part == part_out_features(vocab_size, world_size)
    IN IF world_size > 1 THEN GatherLogits(part, world_size)
       ELSE [j \in 0..(part - 1) |-> j]

\* the id of the call that opened the session a call belongs to: a call at
\* start_pos = 0 opens one, a call that starts where the previous call of the
\* session returned, with its batch size, continues it; 0 when neither
Session(prev, bsz, start_pos, id) ==
    IF start_pos = 0 THEN id
    ELSE IF /\ prev.called /\ prev.err = "" /\ prev.session > 0
            /\ start_pos = prev.start_pos + prev.seqlen /\ bsz = prev.bsz
    THEN prev.session
    ELSE 0

Transformer_forward(bsz, start_pos, seqlen) ==
    /\ tf.state = "ready"
    /\ ncalls < MaxCalls
    /\ LET a == tf.args
           \* line 466: self.freqs_cis[start_pos:start_pos+seqlen]
           freqs_rows == Cardinality(Slice(start_pos, start_pos + seqlen, NRows(tf.freqs_cis)))
           c == [bsz |-> bsz, seqlen |-> seqlen, start_pos |-> start_pos,
                 freqs_rows |-> freqs_rows, mask |-> MakeMask(seqlen), id |-> ncalls + 1]
           r == RunLayers(0, [err |-> "", layer |-> 0, k |-> k_cache, v |-> v_cache,
                              scores |-> {}, attn |-> [i \in {} |-> {}]], c)
       IN /\ k_cache' = r.k
          /\ v_cache' = r.v
          /\ last' = [called |-> TRUE, id |-> ncalls + 1, bsz |-> bsz,
                      start_pos |-> start_pos, seqlen |-> seqlen,
                      err |-> r.err, layer |-> r.layer, scores |-> r.scores, attn |-> r.attn,
                      logits |-> IF r.err = "" THEN HeadLogits(a.vocab_size, a.world_size)
                                 ELSE [j \in {} |-> 0],
                      logits_rows |-> IF r.err = "" THEN bsz ELSE 0,
                      logits_pos |-> IF r.err = "" THEN start_pos + LastIndex(seqlen) ELSE -1,
                      mask_made |-> c.mask.present,
                      session |-> Session(last, bsz, start_pos, ncalls + 1)]
    /\ ncalls' = ncalls + 1
    /\ UNCHANGED <<tf, rope, gate, quant, gen, mla, lin, mgr, conf, coll, shard>>

Idle == [phase |-> "idle"]

Init ==
    /\ tf = [state |-> "uninit", args |-> NoArgs, freqs_cis |-> NoTable]
    /\ k_cache = NoCache
    /\ v_cache = NoCache
    /\ ncalls = 0
    /\ last = NoLast
    /\ lin = Idle /\ mgr = Idle /\ conf = Idle /\ coll = Idle /\ shard = Idle
    /\ rope = Idle
    /\ gate = Idle
    /\ quant = Idle
    /\ gen = Idle
    /\ mla = Idle

Next ==
    \/ \E a \in ArgsSet : Transformer_init(a)
    \/ \E bsz \in 1..(MaxBatch + 1), start_pos \in 0..MaxSeqLen, seqlen \in 1..MaxSeqLen :
          Transformer_forward(bsz, start_pos, seqlen)

Spec == Init /\ [][Next]_vars

(***************************************************************************)
(* The rotary table as a function of its arguments alone.                  *)
(***************************************************************************)
MaxCorr2 == 5      \* the correction dims (in halves) are drawn from -1..MaxCorr2

RopeArgsSet ==
    [max_batch_size : {1},
     max_seq_len : 1..MaxRopeSeq,
     vocab_size : {MaxVocab},
     n_layers : {NLayers},
     qk_rope_head_dim : {2 * n : n \in 1..MaxRopePairs},
     original_seq_len : 1..MaxRopeSeq,
     rope_factor : 1..MaxRopeFactor,
     corr_low2 : (-1)..MaxCorr2,
     corr_high2 : (-1)..MaxCorr2,
     world_size : {1}]

RopePrecompute ==
    /\ rope.phase = "args"
    /\ rope' = [phase |-> "done", args |-> rope.args,
                freqs |-> rope_freqs(rope.args),
                table |-> precompute_freqs_cis(rope.args)]
    /\ UNCHANGED <<tf, k_cache, v_cache, ncalls, last, gate, quant, gen, mla, lin, mgr, conf, coll, shard>>

InitRope ==
    /\ tf = [state |-> "uninit", args |-> NoArgs, freqs_cis |-> NoTable]
    /\ k_cache = NoCache
    /\ v_cache = NoCache
    /\ ncalls = 0
    /\ last = NoLast
    /\ lin = Idle /\ mgr = Idle /\ conf = Idle /\ coll = Idle /\ shard = Idle
    /\ rope \in {[phase |-> "args", args |-> a, freqs |-> NoTable, table |-> NoTable] :
                   a \in RopeArgsSet}
    /\ gate = Idle
    /\ quant = Idle
    /\ gen = Idle
    /\ mla = Idle

NextRope == RopePrecompute

SpecRope == InitRope /\ [][NextRope]_vars

(***************************************************************************)
(* Expert router (Gate.forward), for one token.                            *)
(*                                                                         *)
(* A score tensor over the experts is [val, ninf]: val[i] is the rational  *)
(* value of entry i and ninf the set of entries that hold -inf.  The       *)
(* logits linear(x, weight) of the token are the input, whole numbers      *)
(* 0..MaxLogit; the exponential is taken to base 2, which keeps softmax    *)
(* and sigmoid exact: softmax_i = 2^l_i / sum_j 2^l_j and                  *)
(* sigmoid_i = 2^l_i / (2^l_i + 1).                                        *)
(***************************************************************************)
MaxExperts == 4    \* n_routed_experts is drawn from 1..MaxExperts
MaxGroups == 2     \* n_expert_groups is drawn from 1..MaxGroups
MaxLogit == 1      \* the logits of a token are drawn from 0..MaxLogit
MaxBias == 1       \* the bias of one expert is drawn from 1..MaxBias, in units of 1/BiasDen
BiasDen == 4
RouteScale == 2    \* route_scale

RatLeq(a, b) == a[1] * b[2] <= b[1] * a[2]
RatEq(a, b) == a[1] * b[2] = b[1] * a[2]
RECURSIVE Gcd(_, _)
Gcd(a, b) == IF b = 0 THEN a ELSE Gcd(b, a % b)

\* the rational n/d, d > 0, in lowest terms
Rat(n, d) == LET g == Gcd(Abs(n), d) IN <<n \div g, d \div g>>
RatAdd(a, b) == Rat(a[1] * b[2] + b[1] * a[2], a[2] * b[2])
RatDiv(a, b) == Rat(a[1] * b[2], a[2] * b[1])

RECURSIVE RatSum(_, _)
RatSum(f, S) ==
    IF S = {} THEN <<0, 1>>
    ELSE LET i == CHOOSE j \in S : TRUE IN RatAdd(f[i], RatSum(f, S \ {i}))

RECURSIVE Pow2(_)
Pow2(n) == IF n = 0 THEN 1 ELSE 2 * Pow2(n - 1)

RECURSIVE IntSum(_, _)
IntSum(f, S) ==
    IF S = {} THEN 0
    ELSE LET i == CHOOSE j \in S : TRUE IN f[i] + IntSum(f, S \ {i})

\* line 341: scores.softmax(dim=-1)
Softmax(logits) ==
    LET den == IntSum([i \in DOMAIN logits |-> Pow2(logits[i])], DOMAIN logits)
    IN [i \in DOMAIN logits |-> <<Pow2(logits[i]), den>>]

\* line 343: scores.sigmoid()
Sigmoid(logits) == [i \in DOMAIN logits |-> <<Pow2(logits[i]), Pow2(logits[i]) + 1>>]

\* entry i of tensor t is at most entry j
EntryLeq(t, i, j) ==
    \/ i \in t.ninf
    \/ (j \notin t.ninf /\ RatLeq(t.val[i], t.val[j]))

TopKSetsDropOne(t, k) ==
    {S \in SUBSET (DOMAIN t.val) :
        /\ Cardinality(S) = k - 1
        /\ \A i \in S : \A j \in (DOMAIN t.val) \ S : EntryLeq(t, j, i)}

\* torch.topk(t, k)[1]: the index sets it may return; which of several equal
\* entries it takes is not specified
TopKSets(t, k) ==
    {S \in SUBSET (DOMAIN t.val) :
        /\ Cardinality(S) = k
        /\ \A i \in S : \A j \in (DOMAIN t.val) \ S : EntryLeq(t, j, i)}

\* scores.view(x.size(0), n_groups, -1), line 348: the experts of group g
GroupMembers(g, n_experts, n_groups) ==
    LET size == n_experts \div n_groups IN {i \in 0..(n_experts - 1) : i \div size = g}

\* line 350: scores.amax(dim=-1)
GroupAmax(val, members) ==
    val[CHOOSE i \in members : \A j \in members : RatLeq(val[j], val[i])]

\* line 352: scores.topk(2, dim=-1)[0].sum(dim=-1)
GroupTop2Sum(val, members) ==
    LET pairs == {ij \in members \X members : ij[1] # ij[2]}
        best == CHOOSE ij \in pairs : \A kl \in pairs :
                   RatLeq(RatAdd(val[kl[1]], val[kl[2]]), RatAdd(val[ij[1]], val[ij[2]]))
    IN RatAdd(val[best[1]], val[best[2]])

\* line 354: new_ones(..).scatter_(1, indices, False): the groups left True
MaskedGroups(n_groups, kept) == (0..(n_groups - 1)) \ kept

\* line 359: weights /= weights.sum(dim=-1, keepdim=True).  A weight is
\* [kind, q]: "num" with the rational q, "ninf" for -inf, "nan" for NaN.
Renormalize(w, sel) ==
    IF \E i \in sel : w[i].kind = "ninf"
    THEN \* the sum is -inf: x / -inf is (minus) zero, -inf / -inf is NaN
         [i \in sel |-> IF w[i].kind = "ninf" THEN [kind |-> "nan", q |-> <<0, 1>>]
                        ELSE [kind |-> "num", q |-> <<0, 1>>]]
    ELSE LET total == RatSum([i \in sel |-> w[i].q], sel)
         IN [i \in sel |-> [kind |-> "num", q |-> RatDiv(w[i].q, total)]]

\* line 360: weights *= self.route_scale
Scale(w, sel, route_scale) ==
    [i \in sel |-> [kind |-> w[i].kind, q |-> <<w[i].q[1] * route_scale, w[i].q[2]>>]]

NoGateOut ==
    [err |-> "", group_scores |-> [g \in {} |-> 0], kept |-> {}, indices |-> {},
     original |-> [val |-> [i \in {} |-> 0], ninf |-> {}],
     pre |-> [i \in {} |-> 0], weights |-> [i \in {} |-> 0]]

\* lines 345-355 up to the choice of the groups: the error raised, if any
GateGroupError(c) ==
    IF c.n_groups > 1 /\ c.n_routed_experts % c.n_groups # 0 THEN "view"
    ELSE IF c.n_groups > 1 /\ c.has_bias /\ c.n_routed_experts \div c.n_groups < 2 THEN "group_topk"
    ELSE IF c.n_groups > 1 /\ c.topk_groups > c.n_groups THEN "group_topk"
    ELSE ""

\* lines 339-346: the scores before and after the bias
GateOriginal(c, logits) == IF c.score_func = "softmax" THEN Softmax(logits) ELSE Sigmoid(logits)
GateBiased(c, logits, bias) ==
    LET o == GateOriginal(c, logits)
    IN IF c.has_bias THEN [i \in DOMAIN o |-> RatAdd(o[i], <<bias[i], BiasDen>>)] ELSE o

\* lines 348-352: the score of each group
GateGroupScores(c, logits, bias) ==
    LET val == GateBiased(c, logits, bias)
    IN [g \in 0..(c.n_groups - 1) |->
          LET m == GroupMembers(g, c.n_routed_experts, c.n_groups)
          IN IF c.has_bias THEN GroupTop2Sum(val, m) ELSE GroupAmax(val, m)]

\* line 353: the group sets group_scores.topk(topk_groups) may return
GateGroupChoices(c, logits, bias) ==
    IF c.n_groups > 1 /\ GateGroupError(c) = ""
    THEN TopKSets([val |-> GateGroupScores(c, logits, bias), ninf |-> {}], c.topk_groups)
    ELSE {{}}

\* lines 354-355: the scores after masked_fill_, given the groups kept
GateMasked(c, logits, bias, kept) ==
    LET masked == MaskedGroups(c.n_groups, kept)
    IN [val |-> GateBiased(c, logits, bias),
        ninf |-> IF c.n_groups > 1
                 THEN {i \in 0..(c.n_routed_experts - 1) :
                         \E g \in masked : i \in GroupMembers(g, c.n_routed_experts, c.n_groups)}
                 ELSE {}]

\* line 356: the expert sets torch.topk(scores, topk) may return
GateExpertChoices(c, logits, bias, kept) ==
    IF GateGroupError(c) # "" \/ c.topk > c.n_routed_experts THEN {{}}
    ELSE TopKSets(GateMasked(c, logits, bias, kept), c.topk)

GateBiasedAtGather(c, logits, bias, kept) ==
    [val |-> GateBiased(c, logits, bias), ninf |-> {}]

\* original_scores as line 357 reads it.  Without a bias, scores is
\* original_scores itself, and with groups scores.view(..) shares its
\* storage: masked_fill_ writes -inf into original_scores too.
GateOriginalAtGather(c, logits, bias, kept) ==
    [val |-> GateOriginal(c, logits),
     ninf |-> IF c.has_bias THEN {} ELSE GateMasked(c, logits, bias, kept).ninf]

\* Gate.forward, given the outcome kept / sel of the two topk calls
Gate_forward(c, logits, bias, kept, sel) ==
    LET gerr == GateGroupError(c)
        orig == GateOriginalAtGather(c, logits, bias, kept)
        \* line 357: weights = original_scores.gather(1, indices)
        gathered == [i \in sel |-> IF i \in orig.ninf THEN [kind |-> "ninf", q |-> <<0, 1>>]
                                   ELSE [kind |-> "num", q |-> orig.val[i]]]
        pre == IF c.score_func = "sigmoid" THEN Renormalize(gathered, sel) ELSE gathered
    IN IF gerr # "" THEN [NoGateOut EXCEPT !.err = gerr]
       ELSE IF c.topk > c.n_routed_experts THEN [NoGateOut EXCEPT !.err = "topk"]
       ELSE [err |-> "none",
             group_scores |-> IF c.n_groups > 1 THEN GateGroupScores(c, logits, bias)
                              ELSE [g \in {} |-> 0],
             kept |-> kept, indices |-> sel, original |-> orig,
             pre |-> pre, weights |-> Scale(pre, sel, c.route_scale)]

GateCfgSet ==
    {c \in [n_routed_experts : 1..MaxExperts, topk : 1..MaxExperts,
            n_groups : 1..MaxGroups, topk_groups : 1..MaxGroups,
            score_func : {"softmax", "sigmoid"}, route_scale : {RouteScale},
            has_bias : BOOLEAN] :
        c.topk <= c.n_routed_experts /\ c.topk_groups <= c.n_groups}

\* the bias of a gate that has one: one expert raised by b/BiasDen
GateBiasSet(c) ==
    IF c.has_bias
    THEN {[i \in 0..(c.n_routed_experts - 1) |-> IF i = j THEN b ELSE 0] :
             j \in 0..(c.n_routed_experts - 1), b \in 1..MaxBias}
    ELSE {[i \in 0..(c.n_routed_experts - 1) |-> 0]}

GateForward ==
    /\ gate.phase = "input"
    /\ \E kept \in GateGroupChoices(gate.cfg, gate.logits, gate.bias) :
         \E sel \in GateExpertChoices(gate.cfg, gate.logits, gate.bias, kept) :
            gate' = [gate EXCEPT !.phase = "done",
                        !.out = Gate_forward(gate.cfg, gate.logits, gate.bias, kept, sel)]
    /\ UNCHANGED <<tf, k_cache, v_cache, ncalls, last, rope, quant, gen, mla, lin, mgr, conf, coll, shard>>

InitGate ==
    /\ tf = [state |-> "uninit", args |-> NoArgs, freqs_cis |-> NoTable]
    /\ k_cache = NoCache
    /\ v_cache = NoCache
    /\ ncalls = 0
    /\ last = NoLast
    /\ lin = Idle /\ mgr = Idle /\ conf = Idle /\ coll = Idle /\ shard = Idle
    /\ rope = Idle
    /\ \E c \in GateCfgSet :
         \E logits \in [0..(c.n_routed_experts - 1) -> 0..MaxLogit] :
            \E bias \in GateBiasSet(c) :
               gate = [phase |-> "input", cfg |-> c, logits |-> logits, bias |-> bias,
                       out |-> NoGateOut]
    /\ quant = Idle
    /\ gen = Idle
    /\ mla = Idle

NextGate == GateForward

SpecGate == InitGate /\ [][NextGate]_vars

(***************************************************************************)
(* Block quantization (kernel_fallback.py).                                *)
(*                                                                         *)
(* Tensor elements are integers in units of 1e-8 / UnitsPerEps, so that    *)
(* the clamp of the scale at 1e-8 is exact.  A 2-D tensor of shape <<R, C>>*)
(* is kept flat, row-major: element (r, c) is at index r * C + c.  The     *)
(* scale of a block is kept multiplied by 127 (scale127).                  *)
(***************************************************************************)
MaxNumel == 4
MaxBlock == 2
MaxQuantVal == 2
QuantStep == 200
UnitsPerEps == 2

\* torch.round: to the nearest integer, halves to the even one (d > 0)
RoundHalfEven(n, d) ==
    LET q == n \div d
        r == n - q * d
    IN  IF 2 * r < d THEN q
        ELSE IF 2 * r > d THEN q + 1
        ELSE IF q % 2 = 0 THEN q ELSE q + 1

Clamp(x, lo, hi) == Max(lo, Min(x, hi))

\* the block of x.view(-1, block_size) that holds flat index i
BlockOf(i, block_size) == i \div block_size

BlockMembers(b, block_size) == (b * block_size)..(b * block_size + block_size - 1)

\* torch.max(torch.abs(x_flat), dim=1) of block b
BlockMaxAbs(x, b, block_size) ==
    CHOOSE m \in {Abs(x[i]) : i \in BlockMembers(b, block_size)} :
        \A i \in BlockMembers(b, block_size) : Abs(x[i]) <= m

Scale127Floor(x, b, block_size) == 127 * UnitsPerEps

\* scale = clamp(max_vals / 127, min=1e-8), times 127
Scale127(x, b, block_size) == Max(BlockMaxAbs(x, b, block_size), 127 * UnitsPerEps)

\* act_quant(x, block_size) of a tensor of the given shape
act_quant(x, shape, block_size) ==
    LET numel == shape[1] * shape[2]
    IN  IF numel % block_size # 0
        THEN [err |-> "view", values |-> << >>, scale127 |-> << >>]
        ELSE LET sc == [b \in 0..((numel \div block_size) - 1) |-> Scale127(x, b, block_size)]
             IN  [err |-> "none",
                  values |-> [i \in 0..(numel - 1) |->
                                Clamp(RoundHalfEven(127 * x[i], sc[BlockOf(i, block_size)]),
                                      -127, 127)],
                  scale127 |-> sc]

\* the row of scale.view(-1, 1).expand(R, C) that multiplies flat index i
ScaleIndexOf(i, shape) == i \div shape[2]

\* weight_dequant(weight, scale, block_size) on int8 values; the result is
\* kept multiplied by 127.  block_size is not used.
weight_dequant(weight, scale127, shape, block_size) ==
    LET nscale == Cardinality(DOMAIN scale127)
        idx    == 0..(shape[1] * shape[2] - 1)
    IN  IF nscale = 1
        THEN [err |-> "none", out127 |-> [i \in idx |-> weight[i] * scale127[0]]]
        ELSE IF ~Broadcastable(nscale, shape[1])
        THEN [err |-> "expand", out127 |-> << >>]
        ELSE [err |-> "none",
              out127 |-> [i \in idx |-> weight[i] * scale127[ScaleIndexOf(i, shape)]]]

QuantShapes == {sh \in (1..MaxNumel) \X (1..MaxNumel) : sh[1] * sh[2] <= MaxNumel}

QuantValues == {m * st : m \in (-MaxQuantVal)..MaxQuantVal, st \in {1, QuantStep}}

NoQuantOut == [err |-> "", values |-> << >>, scale127 |-> << >>]

NoDequantOut == [err |-> "", out127 |-> << >>]

\* a caller quantizes a tensor
ActQuant ==
    /\ quant.phase = "input"
    /\ quant' = [quant EXCEPT !.phase = "quantized",
                    !.q = act_quant(quant.x, quant.shape, quant.block_size)]
    /\ UNCHANGED <<tf, k_cache, v_cache, ncalls, last, rope, gate, gen, mla, lin, mgr, conf, coll, shard>>

\* and hands the values and the scales act_quant returned to weight_dequant
WeightDequant ==
    /\ quant.phase = "quantized"
    /\ quant.q.err = "none"
    /\ quant' = [quant EXCEPT !.phase = "dequantized",
                    !.d = weight_dequant(quant.q.values, quant.q.scale127,
                                         quant.shape, quant.block_size)]
    /\ UNCHANGED <<tf, k_cache, v_cache, ncalls, last, rope, gate, gen, mla, lin, mgr, conf, coll, shard>>

InitQuant ==
    /\ tf = [state |-> "uninit", args |-> NoArgs, freqs_cis |-> NoTable]
    /\ k_cache = NoCache
    /\ v_cache = NoCache
    /\ ncalls = 0
    /\ last = NoLast
    /\ lin = Idle /\ mgr = Idle /\ conf = Idle /\ coll = Idle /\ shard = Idle
    /\ rope = Idle
    /\ gate = Idle
    /\ \E sh \in QuantShapes, bs \in 1..MaxBlock :
         \E x \in [0..(sh[1] * sh[2] - 1) -> QuantValues] :
            quant = [phase |-> "input", shape |-> sh, block_size |-> bs, x |-> x,
                     q |-> NoQuantOut, d |-> NoDequantOut]
    /\ gen = Idle
    /\ mla = Idle

NextQuant == ActQuant \/ WeightDequant

SpecQuant == InitQuant /\ [][NextQuant]_vars

(***************************************************************************)
(* Generation driver (spec 4.7) and the managers' generate_text.           *)
(*                                                                         *)
(* generate is imported by main.py and main_fixed.py from a module that is *)
(* not part of the sources at hand; its loop follows the specification:    *)
(* prefill, then one token per unfinished sequence and per iteration, a    *)
(* sequence finishing at eos_id or at max_new_tokens, a call aborting when *)
(* a sequence would grow past max_seq_len.  The cap generate_text puts on  *)
(* max_tokens (50, 100 or 150) is scaled down to TokenCapCpu, TokenCapGpu. *)
(***************************************************************************)
MaxGenBatch == 2
MaxPrompt == 2
GenVocab == 2
TokenCapCpu == 2
TokenCapGpu == 3

GenTokens == 0..(GenVocab - 1)

\* max_tokens = min(max_tokens, 50 if self.device == "cpu" else 150)
ClampMaxTokens(max_tokens, device) ==
    Min(max_tokens, IF device = "cpu" THEN TokenCapCpu ELSE TokenCapGpu)

\* the stop condition of one sequence after it appended tok as its count-th
\* new token
SeqFinishedNoEos(tok, count, max_new_tokens, eos_id) == count >= max_new_tokens

SeqFinished(tok, count, max_new_tokens, eos_id) ==
    tok = eos_id \/ count >= max_new_tokens

\* the sequences that take part in an iteration
Active(finished) == {i \in DOMAIN finished : ~finished[i]}

\* generate_text: one prompt, the clamped budget, the tokenizer's eos id
GenerateText ==
    /\ gen.phase = "input"
    /\ Len(gen.prompt_lens) = 1
    /\ gen' = [gen EXCEPT !.phase = "prefill", !.via = "generate_text",
                  !.max_new_tokens = ClampMaxTokens(gen.max_tokens, gen.device)]
    /\ UNCHANGED <<tf, k_cache, v_cache, ncalls, last, rope, gate, quant, mla, lin, mgr, conf, coll, shard>>

\* generate called on a batch of prompts
GenerateBatch ==
    /\ gen.phase = "input"
    /\ gen' = [gen EXCEPT !.phase = "prefill", !.via = "generate",
                  !.max_new_tokens = gen.max_tokens]
    /\ UNCHANGED <<tf, k_cache, v_cache, ncalls, last, rope, gate, quant, mla, lin, mgr, conf, coll, shard>>

\* the prompts are run through the model
GenPrefill ==
    /\ gen.phase = "prefill"
    /\ gen' = [gen EXCEPT
                  !.phase = IF \E i \in DOMAIN gen.prompt_lens :
                                  gen.prompt_lens[i] > gen.max_seq_len
                            THEN "error"
                            ELSE IF gen.max_new_tokens <= 0 THEN "returned" ELSE "loop",
                  !.finished = [i \in DOMAIN gen.prompt_lens |-> gen.max_new_tokens <= 0]]
    /\ UNCHANGED <<tf, k_cache, v_cache, ncalls, last, rope, gate, quant, mla, lin, mgr, conf, coll, shard>>

\* one iteration: forward one token, sample, append, check the stop conditions
GenStep ==
    /\ gen.phase = "loop"
    /\ IF \E i \in Active(gen.finished) :
             gen.prompt_lens[i] + Len(gen.new[i]) + 1 > gen.max_seq_len
       THEN gen' = [gen EXCEPT !.phase = "error"]
       ELSE \E toks \in [DOMAIN gen.prompt_lens -> GenTokens] :
               LET new == [i \in DOMAIN gen.new |->
                             IF i \in Active(gen.finished)
                             THEN Append(gen.new[i], toks[i]) ELSE gen.new[i]]
                   fin == [i \in DOMAIN gen.new |->
                             IF i \in Active(gen.finished)
                             THEN SeqFinished(toks[i], Len(new[i]), gen.max_new_tokens,
                                              gen.eos_id)
                             ELSE gen.finished[i]]
               IN  gen' = [gen EXCEPT !.new = new, !.finished = fin,
                              !.phase = IF Active(fin) = {} THEN "returned" ELSE "loop"]
    /\ UNCHANGED <<tf, k_cache, v_cache, ncalls, last, rope, gate, quant, mla, lin, mgr, conf, coll, shard>>

InitGen ==
    /\ tf = [state |-> "uninit", args |-> NoArgs, freqs_cis |-> NoTable]
    /\ k_cache = NoCache
    /\ v_cache = NoCache
    /\ ncalls = 0
    /\ last = NoLast
    /\ lin = Idle /\ mgr = Idle /\ conf = Idle /\ coll = Idle /\ shard = Idle
    /\ rope = Idle
    /\ gate = Idle
    /\ quant = Idle
    /\ \E b \in 1..MaxGenBatch :
         \E lens \in [1..b -> 1..MaxPrompt], n \in 0..(TokenCapGpu + 1), e \in GenTokens,
            dev \in {"cpu", "cuda"}, msl \in (MaxSeqLen - 1)..MaxSeqLen :
            gen = [phase |-> "input", via |-> "", prompt_lens |-> lens, max_tokens |-> n,
                   max_new_tokens |-> 0, eos_id |-> e, device |-> dev, max_seq_len |-> msl,
                   new |-> [i \in 1..b |-> << >>], finished |-> [i \in 1..b |-> FALSE]]
    /\ mla = Idle

NextGen == GenerateText \/ GenerateBatch \/ GenPrefill \/ GenStep

\* the loop is sequential code: an enabled step is eventually taken
SpecGen == InitGen /\ [][NextGen]_vars /\ WF_vars(NextGen)

(***************************************************************************)
(* The two attention strategies of MLA.forward, side by side.              *)
(*                                                                         *)
(* One batch row, one head, qk_nope_head_dim = v_head_dim = 1 and          *)
(* kv_lora_rank = KvRank.  A token enters as what the projections before   *)
(* the branch made of it: q_nope, the rotated q_pe and k_pe (one component *)
(* each), and the normalized latent kv_norm(kv).  wkv_b has no bias and is *)
(* not quantized (Linear's dtype is float32 or bfloat16).  Arithmetic is   *)
(* exact; softmax_scale is taken as ln 2, so that the softmax weight of a  *)
(* score s is 2^s over the sum.                                            *)
(***************************************************************************)
MaxAttnSeq == 3
MaxAttnLen == 2
MaxAttnCalls == 2
MaxAttnVal == 1
KvRank == 2

Dot(a, b) == IntSum([i \in DOMAIN a |-> a[i] * b[i]], DOMAIN a)

AttnTokens ==
    [q_nope : 1..MaxAttnVal, q_pe : 1..MaxAttnVal, k_pe : 0..MaxAttnVal,
     kv : [0..(KvRank - 1) -> 0..MaxAttnVal]]

\* wkv_b.view(n_local_heads, -1, kv_lora_rank): the rows that make k_nope
\* and the rows that make v
WkvSet ==
    [k : [0..(KvRank - 1) -> {-1, 1}],
     v : {[c \in 0..(KvRank - 1) |-> 1], [c \in 0..(KvRank - 1) |-> IF c = 0 THEN 1 ELSE -1]}]

\* the keys row s of a call may not attend to
MaskedKeys(mask, s, keys) ==
    IF mask.present THEN {t \in keys : <<s, t>> \in mask.ninf} ELSE {}

\* scores.softmax(dim=-1) of one row, as numerators over their sum
SoftmaxWeights(scores, keys, masked) ==
    LET live == keys \ masked
        m    == CHOOSE x \in {scores[t] : t \in live} : \A t \in live : x <= scores[t]
    IN  [t \in keys |-> IF t \in masked THEN 0 ELSE Pow2(scores[t] - m)]

\* naive strategy, lines 278-291
NaiveKey(wkv_b, tok) == [nope |-> Dot(wkv_b.k, tok.kv), pe |-> tok.k_pe]

NaiveValue(wkv_b, tok) == Dot(wkv_b.v, tok.kv)

NaiveScores(tok, kc, keys) ==
    [t \in keys |-> tok.q_nope * kc[t].nope + tok.q_pe * kc[t].pe]

NaiveOutput(w, vc, keys) ==
    <<IntSum([t \in keys |-> w[t] * vc[t]], keys), IntSum(w, keys)>>

\* absorbed strategy, lines 294-309
AbsorbQuery(wkv_b, tok) == [c \in DOMAIN wkv_b.k |-> tok.q_nope * wkv_b.k[c]]

AbsorbScores(tok, qa, kvc, pec, keys) ==
    [t \in keys |-> Dot(qa, kvc[t]) + tok.q_pe * pec[t]]

AbsorbLatent(w, kvc, keys) ==
    [c \in 0..(KvRank - 1) |-> IntSum([t \in keys |-> w[t] * kvc[t][c]], keys)]

ValueRowsFromKeys(wkv_b) == wkv_b.k

\* wkv_b[:, -self.v_head_dim:]
ValueRows(wkv_b) == wkv_b.v

AbsorbOutput(wkv_b, w, kvc, keys) ==
    <<Dot(ValueRows(wkv_b), AbsorbLatent(w, kvc, keys)), IntSum(w, keys)>>

\* what both branches share: the statement that raises, if one does.  The
\* rotary table is sliced [start_pos:end_pos] of max_seq_len rows, the mask
\* is seqlen by seqlen and the scores have end_pos keys.
AttnError(start_pos, seqlen) ==
    IF Cardinality(Slice(start_pos, start_pos + seqlen, MaxAttnSeq)) # seqlen
    THEN "apply_rotary_emb"
    ELSE IF MakeMask(seqlen).present /\ ~Broadcastable(seqlen, start_pos + seqlen)
    THEN "mask_add"
    ELSE ""

NoAttnOut == << >>

\* MLA.forward with attn_impl = "naive" on the buffers kc, vc
MLA_forward_naive(wkv_b, kc, vc, start_pos, toks) ==
    LET seqlen  == Cardinality(DOMAIN toks)
        end_pos == start_pos + seqlen
        err     == AttnError(start_pos, seqlen)
        written == Slice(start_pos, end_pos, MaxAttnSeq)
        kc2     == [t \in DOMAIN kc |-> IF t \in written
                                        THEN NaiveKey(wkv_b, toks[t - start_pos]) ELSE kc[t]]
        vc2     == [t \in DOMAIN vc |-> IF t \in written
                                        THEN NaiveValue(wkv_b, toks[t - start_pos]) ELSE vc[t]]
        keys    == Slice(0, end_pos, MaxAttnSeq)
    IN  IF err = "apply_rotary_emb" THEN [err |-> err, k |-> kc, v |-> vc, out |-> NoAttnOut]
        ELSE IF err = "mask_add" THEN [err |-> err, k |-> kc2, v |-> vc2, out |-> NoAttnOut]
        ELSE [err |-> "", k |-> kc2, v |-> vc2,
              out |-> [s \in DOMAIN toks |->
                         NaiveOutput(SoftmaxWeights(NaiveScores(toks[s], kc2, keys), keys,
                                                    MaskedKeys(MakeMask(seqlen), s, keys)),
                                     vc2, keys)]]

\* MLA.forward with attn_impl = "absorb" on the buffers kvc, pec
MLA_forward_absorb(wkv_b, kvc, pec, start_pos, toks) ==
    LET seqlen  == Cardinality(DOMAIN toks)
        end_pos == start_pos + seqlen
        err     == AttnError(start_pos, seqlen)
        written == Slice(start_pos, end_pos, MaxAttnSeq)
        kvc2    == [t \in DOMAIN kvc |-> IF t \in written THEN toks[t - start_pos].kv
                                         ELSE kvc[t]]
        pec2    == [t \in DOMAIN pec |-> IF t \in written THEN toks[t - start_pos].k_pe
                                         ELSE pec[t]]
        keys    == Slice(0, end_pos, MaxAttnSeq)
    IN  IF err = "apply_rotary_emb" THEN [err |-> err, kv |-> kvc, pe |-> pec, out |-> NoAttnOut]
        ELSE IF err = "mask_add" THEN [err |-> err, kv |-> kvc2, pe |-> pec2, out |-> NoAttnOut]
        ELSE [err |-> "", kv |-> kvc2, pe |-> pec2,
              out |-> [s \in DOMAIN toks |->
                         AbsorbOutput(wkv_b,
                            SoftmaxWeights(AbsorbScores(toks[s], AbsorbQuery(wkv_b, toks[s]),
                                                        kvc2, pec2, keys),
                                           keys, MaskedKeys(MakeMask(seqlen), s, keys)),
                            kvc2, keys)]]

\* the same call on an instance of each strategy
AttnCall(start_pos, toks) ==
    /\ mla.phase = "ready"
    /\ mla.ncalls < MaxAttnCalls
    /\ LET n == MLA_forward_naive(mla.wkv_b, mla.k_cache, mla.v_cache, start_pos, toks)
           a == MLA_forward_absorb(mla.wkv_b, mla.kv_cache, mla.pe_cache, start_pos, toks)
       IN  mla' = [mla EXCEPT !.ncalls = @ + 1,
                      !.start_pos = start_pos, !.seqlen = Cardinality(DOMAIN toks),
                      !.k_cache = n.k, !.v_cache = n.v, !.kv_cache = a.kv, !.pe_cache = a.pe,
                      !.naive = [err |-> n.err, out |-> n.out],
                      !.absorb = [err |-> a.err, out |-> a.out]]
    /\ UNCHANGED <<tf, k_cache, v_cache, ncalls, last, rope, gate, quant, gen, lin, mgr, conf, coll, shard>>

InitAttn ==
    /\ tf = [state |-> "uninit", args |-> NoArgs, freqs_cis |-> NoTable]
    /\ k_cache = NoCache
    /\ v_cache = NoCache
    /\ ncalls = 0
    /\ last = NoLast
    /\ lin = Idle /\ mgr = Idle /\ conf = Idle /\ coll = Idle /\ shard = Idle
    /\ rope = Idle
    /\ gate = Idle
    /\ quant = Idle
    /\ gen = Idle
    /\ \E w \in WkvSet :
         mla = [phase |-> "ready", wkv_b |-> w, ncalls |-> 0, start_pos |-> 0, seqlen |-> 0,
                k_cache |-> [t \in 0..(MaxAttnSeq - 1) |-> [nope |-> 0, pe |-> 0]],
                v_cache |-> [t \in 0..(MaxAttnSeq - 1) |-> 0],
                kv_cache |-> [t \in 0..(MaxAttnSeq - 1) |-> [c \in 0..(KvRank - 1) |-> 0]],
                pe_cache |-> [t \in 0..(MaxAttnSeq - 1) |-> 0],
                naive |-> [err |-> "", out |-> NoAttnOut],
                absorb |-> [err |-> "", out |-> NoAttnOut]]

NextAttn ==
    \E start_pos \in 0..(MaxAttnSeq - 1), seqlen \in 1..MaxAttnLen :
       \E toks \in [0..(seqlen - 1) -> AttnTokens] : AttnCall(start_pos, toks)

SpecAttn == InitAttn /\ [][NextAttn]_vars

(***************************************************************************)
(* Module import, linear(x, weight, bias) and the strategy of an MLA.      *)
(*                                                                         *)
(* The host has an accelerator or not and the triton package or not, and   *)
(* the model module is imported by main.py or by main_fixed.py.  The       *)
(* kernel module that the import prefers is not among the sources: it is   *)
(* taken to import when triton does and to scale each block of a weight by *)
(* its scale entry.                                                        *)
(* A weight is [dtype, has_scale, shape]; its scale, when it has one, is   *)
(* the one Linear.__init__ makes: ceil(out/block_size) by                  *)
(* ceil(in/block_size) entries, entry (i, j) numbered i * cols + j.  The   *)
(* result of a call records the kernel that multiplied, whether the        *)
(* activation was quantized, and for each weight element the number of the *)
(* scale entry it was multiplied by.  block_size (128) is scaled down to   *)
(* LinBlock.                                                               *)
(***************************************************************************)
MaxLinDim == 3
LinBlock == 2

engine == <<tf, k_cache, v_cache, ncalls, last, rope, gate, quant, gen, mla>>

CeilDiv(a, b) == (a + b - 1) \div b

\* weight.element_size()
ElementSize(dtype) ==
    IF dtype = "float32" THEN 4 ELSE IF dtype = "bfloat16" THEN 2 ELSE 1

\* lines 122-127: the shape of the scale of a one-byte weight
ScaleShape(shape) == <<CeilDiv(shape[1], LinBlock), CeilDiv(shape[2], LinBlock)>>

\* the scale entry of the block that holds flat element i of the weight
BlockScaleOf(i, shape) ==
    ((i \div shape[2]) \div LinBlock) * ScaleShape(shape)[2] + ((i % shape[2]) \div LinBlock)

\* weight_dequant of the imported kernels applied to a weight of ones and a
\* scale whose entry b holds b + 1: element i of the result is 127 times
\* one more than the number of the entry it was multiplied by
Dequantized(kernel, dtype, shape) ==
    LET n     == shape[1] * shape[2]
        ns    == ScaleShape(shape)[1] * ScaleShape(shape)[2]
        ones  == [i \in 0..(n - 1) |-> 1]
        scale == [b \in 0..(ns - 1) |-> 127 * (b + 1)]
    IN  IF kernel = "kernel"
        THEN [err |-> "none", same |-> FALSE,
              out127 |-> [i \in 0..(n - 1) |-> 127 * (BlockScaleOf(i, shape) + 1)]]
        ELSE IF dtype # "int8"
        THEN [err |-> "none", same |-> TRUE, out127 |-> ones]
        ELSE [err |-> weight_dequant(ones, scale, shape, LinBlock).err, same |-> FALSE,
              out127 |-> weight_dequant(ones, scale, shape, LinBlock).out127]

NoLinOut == [path |-> "", err |-> "", x_quantized |-> FALSE, applied |-> << >>]

\* F.linear(x, weight, bias) on a full-precision activation: torch multiplies
\* tensors of one dtype only
F_linear(dtype, applied) ==
    IF ElementSize(dtype) = 1
    THEN [path |-> "F.linear", err |-> "dtype", x_quantized |-> FALSE, applied |-> << >>]
    ELSE [path |-> "F.linear", err |-> "", x_quantized |-> FALSE, applied |-> applied]

\* the weight as weight_dequant of the imported kernels returns it, multiplied
\* by the kernel named in path
Multiplied(env, w, path, x_quantized) ==
    LET d == Dequantized(env.kernel, w.dtype, w.shape)
    IN  IF d.err # "none"
        THEN [path |-> "weight_dequant", err |-> d.err, x_quantized |-> x_quantized,
              applied |-> << >>]
        ELSE IF d.same
        THEN [path |-> path, err |-> "dtype", x_quantized |-> x_quantized, applied |-> << >>]
        ELSE [path |-> path, err |-> "", x_quantized |-> x_quantized,
              applied |-> [i \in DOMAIN d.out127 |-> (d.out127[i] \div 127) - 1]]

\* line 95 negated: the branch of act_quant and fp8_gemm
FusedSelected(env) == ~(env.gemm_impl = "bf16" \/ ~env.triton)

\* linear(x, weight, bias), lines 92-106
linear(env, w) ==
    IF ElementSize(w.dtype) > 1
    THEN F_linear(w.dtype, << >>)
    ELSE IF ~FusedSelected(env)
    THEN IF w.has_scale THEN Multiplied(env, w, "F.linear", FALSE)
         ELSE F_linear(w.dtype, << >>)
    ELSE IF ~w.has_scale
    THEN [path |-> "fp8_gemm", err |-> "attribute", x_quantized |-> TRUE, applied |-> << >>]
    ELSE Multiplied(env, w, "fp8_gemm", TRUE)

LinWeights ==
    [dtype : {"float32", "bfloat16", "int8", "float8"}, has_scale : BOOLEAN,
     shape : (1..MaxLinDim) \X (1..MaxLinDim)]

LinHosts == [cuda : BOOLEAN, triton_installed : BOOLEAN, manager : {"main", "main_fixed"}]

\* the manager's start-up: it notes whether triton imports and its device;
\* main_fixed.py then puts the fallback kernels in sys.modules['kernel'] when
\* triton does not (main_fixed.py lines 72-79, 108-186, 433-434; main.py 51-58)
ManagerStartup ==
    /\ lin.phase = "unimported"
    /\ lin' = [lin EXCEPT !.phase = "prepared",
                  !.status = [triton_available |-> lin.host.triton_installed,
                              device |-> IF lin.host.cuda THEN "cuda" ELSE "cpu"],
                  !.injected = (lin.host.manager = "main_fixed" /\ ~lin.host.triton_installed)]
    /\ UNCHANGED <<engine, mgr, conf, coll, shard>>

\* whether `from kernel import act_quant, weight_dequant, fp8_gemm` succeeds
KernelImports(host, injected) == injected \/ host.triton_installed

\* lines 10-24: the import of the kernels and the settings derived from it
ImportModel ==
    /\ lin.phase = "prepared"
    /\ LET k == KernelImports(lin.host, lin.injected)
       IN  lin' = [lin EXCEPT !.phase = "imported",
                      !.env = [triton |-> k,
                               kernel |-> IF k /\ ~lin.injected THEN "kernel"
                                          ELSE "kernel_fallback",
                               gemm_impl |-> IF k THEN "fp8" ELSE "bf16",
                               attn_impl |-> IF k THEN "absorb" ELSE "naive"]]
    /\ UNCHANGED <<engine, mgr, conf, coll, shard>>

\* a caller assigns a module-level setting; out and exec, which describe the
\* latest call under the settings in force, are cleared
SetImpl(g, a) ==
    /\ lin.phase = "imported"
    /\ <<lin.env.gemm_impl, lin.env.attn_impl>> # <<g, a>>
    /\ lin' = [lin EXCEPT !.env.gemm_impl = g, !.env.attn_impl = a,
                  !.out = NoLinOut, !.exec = [strategy |-> "", err |-> ""]]
    /\ UNCHANGED <<engine, mgr, conf, coll, shard>>

LinearCall ==
    /\ lin.phase = "imported"
    /\ lin' = [lin EXCEPT !.out = linear(lin.env, lin.w)]
    /\ UNCHANGED <<engine, mgr, conf, coll, shard>>

\* lines 252 and 277: `attn_impl == "naive" or not TRITON_AVAILABLE`
Strategy(env) ==
    IF env.attn_impl = "naive" \/ ~env.triton THEN "naive" ELSE "absorb"

\* MLA.__init__, lines 251-257: the buffers of the strategy are registered
MLA_init ==
    /\ lin.phase = "imported"
    /\ lin.layout = ""
    /\ lin' = [lin EXCEPT !.layout = Strategy(lin.env)]
    /\ UNCHANGED <<engine, mgr, conf, coll, shard>>

\* MLA.forward, lines 276-310: the branch taken, and the AttributeError of a
\* branch whose buffers were not registered
MLA_forward_branch ==
    /\ lin.phase = "imported"
    /\ lin.layout # ""
    /\ lin' = [lin EXCEPT !.exec = [strategy |-> Strategy(lin.env),
                                    err |-> IF Strategy(lin.env) = lin.layout THEN ""
                                            ELSE "attribute"]]
    /\ UNCHANGED <<engine, mgr, conf, coll, shard>>

InitLin ==
    /\ tf = [state |-> "uninit", args |-> NoArgs, freqs_cis |-> NoTable]
    /\ k_cache = NoCache
    /\ v_cache = NoCache
    /\ ncalls = 0
    /\ last = NoLast
    /\ rope = Idle /\ gate = Idle /\ quant = Idle /\ gen = Idle /\ mla = Idle
    /\ mgr = Idle /\ conf = Idle /\ coll = Idle /\ shard = Idle
    /\ \E w \in LinWeights, h \in LinHosts :
         lin = [phase |-> "unimported", host |-> h, injected |-> FALSE,
                status |-> [triton_available |-> FALSE, device |-> ""],
                env |-> [triton |-> FALSE, kernel |-> "", gemm_impl |-> "", attn_impl |-> ""],
                w |-> w, out |-> NoLinOut, layout |-> "",
                exec |-> [strategy |-> "", err |-> ""]]

NextLin ==
    \/ ManagerStartup
    \/ ImportModel
    \/ \E g \in {"bf16", "fp8"}, a \in {"naive", "absorb"} : SetImpl(g, a)
    \/ LinearCall
    \/ MLA_init
    \/ MLA_forward_branch

SpecLin == InitLin /\ [][NextLin]_vars

(***************************************************************************)
(* The manager (SimpleDeepSeekManager of main.py, ImprovedDeepSeekManager  *)
(* of main_fixed.py) and the request handlers that call it.                *)
(*                                                                         *)
(* The handlers are coroutines of one event loop and call load_model and   *)
(* generate_text without awaiting: a handler that has started runs to its  *)
(* return before another starts.  mgr.loop is the handler that holds the   *)
(* loop (0 when none).  A handler is a test_deepseek request ("test"), a   *)
(* generate_ai_project_suggestion ("suggest") or a direct generate_text    *)
(* call ("generate").  The files and libraries the load depends on are     *)
(* drawn at the start (mgr.env).                                           *)
(***************************************************************************)
MaxHandlers == 2

Handlers == 1..MaxHandlers

MgrEnvs ==
    [variant : {"main", "main_fixed"}, available : BOOLEAN, config_ok : BOOLEAN,
     construct_ok : BOOLEAN, weights : {"ok", "none", "bad"}, generate_ok : BOOLEAN]

LoadPcs == {"load_check", "load_config", "load_construct", "load_weights"}

\* the handlers inside load_model
Loading == {h \in Handlers : mgr.h[h].pc \in LoadPcs}

LoopFreeAlways == TRUE

\* the event loop runs one handler at a time
LoopFree == mgr.loop = 0

\* what the weights step of load_model does: "loaded" and "random" go on to
\* set model_loaded, "failed" returns False.  main.py, lines 334-352;
\* main_fixed.py, lines 501-535
WeightsOutcome(variant, weights) ==
    IF weights = "ok" THEN "loaded"
    ELSE IF variant = "main" THEN "failed" ELSE "random"

\* a request arrives
Arrive(h, kind) ==
    /\ mgr.phase = "serving"
    /\ mgr.h[h].pc = "idle"
    /\ mgr' = [mgr EXCEPT !.h[h].pc = "queued", !.h[h].kind = kind]
    /\ UNCHANGED <<engine, lin, conf, coll, shard>>

\* the event loop starts a queued handler
Start(h) ==
    /\ mgr.phase = "serving"
    /\ mgr.h[h].pc = "queued"
    /\ LoopFree
    /\ mgr' = [mgr EXCEPT !.loop = h,
                  !.h[h].pc = IF mgr.h[h].kind = "test"
                              THEN (IF mgr.env.available THEN "load_check" ELSE "return")
                              ELSE IF mgr.h[h].kind = "suggest"
                              THEN (IF mgr.env.available /\ mgr.model_loaded
                                    THEN "gen_check" ELSE "return")
                              ELSE "gen_check",
                  !.h[h].result = IF mgr.h[h].kind = "test" /\ ~mgr.env.available
                                  THEN "unavailable"
                                  ELSE IF mgr.h[h].kind = "suggest" /\
                                          ~(mgr.env.available /\ mgr.model_loaded)
                                  THEN "fallback" ELSE ""]
    /\ UNCHANGED <<engine, lin, conf, coll, shard>>

\* where a handler goes when its load_model call returns ok
AfterLoad(h, ok) ==
    IF ok THEN [pc |-> "gen_check", result |-> ""]
    ELSE [pc |-> "return",
          result |-> IF mgr.h[h].via = "generate_text" THEN "Model failed to load"
                     ELSE "load_failed"]

AlreadyLoadedNever == FALSE

\* load_model: `if self.model_loaded: return True`
AlreadyLoaded == mgr.model_loaded

\* one step of load_model in handler h
LoadStep(h) ==
    /\ mgr.h[h].pc \in LoadPcs
    /\ LET pc == mgr.h[h].pc
           ret(ok) == [mgr.h[h] EXCEPT !.pc = AfterLoad(h, ok).pc,
                          !.result = AfterLoad(h, ok).result, !.load_ok = ok, !.loads = @ + 1]
       IN  mgr' =
             IF pc = "load_check"
             THEN IF AlreadyLoaded THEN [mgr EXCEPT !.h[h] = ret(TRUE)]
                  ELSE IF ~mgr.env.available THEN [mgr EXCEPT !.h[h] = ret(FALSE)]
                  ELSE [mgr EXCEPT !.h[h].pc = "load_config"]
             ELSE IF pc = "load_config"
             THEN IF mgr.env.config_ok
                  THEN [mgr EXCEPT !.h[h].pc = "load_construct", !.config = TRUE]
                  ELSE [mgr EXCEPT !.h[h] = ret(FALSE)]
             ELSE IF pc = "load_construct"
             THEN IF mgr.env.construct_ok
                  THEN [mgr EXCEPT !.h[h].pc = "load_weights", !.model = "random",
                           !.n_construct = @ + 1]
                  ELSE [mgr EXCEPT !.h[h] = ret(FALSE)]
             ELSE LET w == WeightsOutcome(mgr.env.variant, mgr.env.weights)
                  IN  IF w = "failed"
                      THEN [mgr EXCEPT !.h[h] = ret(FALSE), !.weights_failed = TRUE]
                      ELSE [mgr EXCEPT !.h[h] = ret(TRUE), !.model = w, !.model_loaded = TRUE,
                               !.n_read = IF w = "loaded" THEN @ + 1 ELSE @,
                               !.weights_failed = (w = "random")]
    /\ UNCHANGED <<engine, lin, conf, coll, shard>>

NeedsLoadNever == FALSE

\* generate_text: `if not self.model_loaded`
NeedsLoad == ~mgr.model_loaded

\* one step of generate_text in handler h
GenerateTextStep(h) ==
    /\ mgr.h[h].pc \in {"gen_check", "gen_run"}
    /\ mgr' =
         IF mgr.h[h].pc = "gen_check"
         THEN IF NeedsLoad
              THEN [mgr EXCEPT !.h[h].pc = "load_check", !.h[h].via = "generate_text"]
              ELSE [mgr EXCEPT !.h[h].pc = "gen_run"]
         ELSE [mgr EXCEPT !.h[h].pc = "return",
                  !.h[h].result = IF mgr.env.generate_ok THEN "text" ELSE "Generation error",
                  !.generated = @ \cup {[on |-> mgr.model, loaded |-> mgr.model_loaded,
                                         by |-> h]}]
    /\ UNCHANGED <<engine, lin, conf, coll, shard>>

\* the handler returns and gives the loop back
Return(h) ==
    /\ mgr.h[h].pc = "return"
    /\ mgr' = [mgr EXCEPT !.h[h].pc = "done", !.loop = 0]
    /\ UNCHANGED <<engine, lin, conf, coll, shard>>

InitMgr ==
    /\ tf = [state |-> "uninit", args |-> NoArgs, freqs_cis |-> NoTable]
    /\ k_cache = NoCache
    /\ v_cache = NoCache
    /\ ncalls = 0
    /\ last = NoLast
    /\ rope = Idle /\ gate = Idle /\ quant = Idle /\ gen = Idle /\ mla = Idle
    /\ lin = Idle /\ conf = Idle /\ coll = Idle /\ shard = Idle
    /\ \E e \in MgrEnvs :
         mgr = [phase |-> "serving", env |-> e, loop |-> 0,
                model_loaded |-> FALSE, model |-> "none", config |-> FALSE,
                n_construct |-> 0, n_read |-> 0, weights_failed |-> FALSE, generated |-> {},
                h |-> [h \in Handlers |->
                         [pc |-> "idle", kind |-> "", via |-> "", result |-> "",
                          load_ok |-> FALSE, loads |-> 0]]]

NextMgr ==
    \E h \in Handlers :
       \/ \E kind \in {"test", "suggest", "generate"} : Arrive(h, kind)
       \/ Start(h)
       \/ LoadStep(h)
       \/ GenerateTextStep(h)
       \/ Return(h)

SpecMgr == InitMgr /\ [][NextMgr]_vars

(***************************************************************************)
(* Construction of a Transformer from a configuration, and the reshapes of *)
(* its first forward call.  The model has one dense layer followed by one  *)
(* MoE layer; inter_dim and moe_inter_dim are taken divisible by the world *)
(* size.  conf.site names the statement that raised, "" when none did.     *)
(***************************************************************************)
MaxHeads == 3      \* n_heads is drawn from 1..MaxHeads

ConfArgs ==
    [world_size : 1..MaxWorld,
     vocab_size : (MaxVocab - 1)..MaxVocab,
     n_heads : 1..MaxHeads,
     qk_nope_head_dim : 1..2, qk_rope_head_dim : {2}, v_head_dim : 1..2,
     n_routed_experts : 1..MaxExperts,
     n_expert_groups : 1..MaxGroups]

\* the assert of ColumnParallelLinear.__init__ (line 145) and of
\* RowParallelLinear.__init__ (line 155) on the sharded feature count
ShardAssert(features, world_size) == world_size = 1 \/ features % world_size = 0

\* MLA.__init__, line 226
n_local_heads(a) == IF a.world_size > 1 THEN a.n_heads \div a.world_size ELSE a.n_heads

\* Transformer.__init__, lines 454-463, in the order of its statements: the
\* first assert that fails
ConstructSite(a) ==
    LET ws == a.world_size
        qk_head_dim == a.qk_nope_head_dim + a.qk_rope_head_dim
    IN  IF ~ShardAssertsHold(a) THEN "ParallelEmbedding"
        ELSE IF ~ShardAssert(a.n_heads * qk_head_dim, ws) THEN "MLA.wq"
        ELSE IF ~ShardAssert(a.n_heads * (a.qk_nope_head_dim + a.v_head_dim), ws)
        THEN "MLA.wkv_b"
        ELSE IF ~ShardAssert(a.n_heads * a.v_head_dim, ws) THEN "MLA.wo"
        ELSE IF ~(ws = 1 \/ a.n_routed_experts % ws = 0) THEN "MoE"
        ELSE ""

\* the reshapes of a forward call: q.view(bsz, seqlen, n_local_heads,
\* qk_head_dim) of MLA.forward (line 268) on the output of the sharded wq,
\* and scores.view(tokens, n_groups, -1) of Gate.forward (line 348)
ForwardSite(a) ==
    LET qk_head_dim == a.qk_nope_head_dim + a.qk_rope_head_dim
        wq_out == part_out_features(a.n_heads * qk_head_dim, a.world_size)
    IN  IF wq_out # n_local_heads(a) * qk_head_dim THEN "MLA.forward view"
        ELSE IF a.n_expert_groups > 1 /\ a.n_routed_experts % a.n_expert_groups # 0
        THEN "Gate.forward view"
        ELSE ""

ConfConstruct ==
    /\ conf.phase = "args"
    /\ conf' = [conf EXCEPT !.phase = IF ConstructSite(conf.args) = "" THEN "constructed"
                                      ELSE "failed",
                            !.site = ConstructSite(conf.args)]
    /\ UNCHANGED <<engine, lin, mgr, coll, shard>>

ConfForward ==
    /\ conf.phase = "constructed"
    /\ conf' = [conf EXCEPT !.phase = "called", !.site = ForwardSite(conf.args)]
    /\ UNCHANGED <<engine, lin, mgr, coll, shard>>

\* the instance is dropped and another configuration is tried
ConfAgain(a) ==
    /\ conf.phase \in {"failed", "called"}
    /\ conf' = [phase |-> "args", args |-> a, site |-> ""]
    /\ UNCHANGED <<engine, lin, mgr, coll, shard>>

InitConf ==
    /\ tf = [state |-> "uninit", args |-> NoArgs, freqs_cis |-> NoTable]
    /\ k_cache = NoCache
    /\ v_cache = NoCache
    /\ ncalls = 0
    /\ last = NoLast
    /\ rope = Idle /\ gate = Idle /\ quant = Idle /\ gen = Idle /\ mla = Idle
    /\ lin = Idle /\ mgr = Idle /\ coll = Idle /\ shard = Idle
    /\ \E a \in ConfArgs : conf = [phase |-> "args", args |-> a, site |-> ""]

NextConf ==
    \/ ConfConstruct
    \/ ConfForward
    \/ \E a \in ConfArgs : ConfAgain(a)

SpecConf == InitConf /\ [][NextConf]_vars

(***************************************************************************)
(* One forward call on every worker of a distributed run.  The model has   *)
(* one dense layer followed by one MoE layer.  Each worker executes its    *)
(* own list of operations: the calls of torch.distributed, which block     *)
(* until every worker has made the call of the same kind, and the calls of *)
(* its local experts.  coll.routed holds the experts that the gate gave at *)
(* least one token; coll.pc[r] is the position of worker r in its list.    *)
(***************************************************************************)
MaxLocalExperts == 2   \* each worker holds MaxLocalExperts experts

all_reduce(name) == [kind |-> "all_reduce", name |-> name]
all_gather(name) == [kind |-> "all_gather", name |-> name]

\* the guard `if world_size > 1:` of lines 88, 161, 415 and 478
IfDistributed(world_size, op) == IF world_size > 1 THEN <<op>> ELSE << >>

ExpertOpsReducing(i, routed) ==
    IF i \notin routed THEN << >>
    ELSE <<[kind |-> "local", name |-> "expert"], all_reduce("expert")>>

\* MoE.forward, lines 408-412: an expert without tokens is skipped; an
\* Expert is made of plain Linear layers
ExpertOps(i, routed) ==
    IF i \notin routed THEN << >> ELSE <<[kind |-> "local", name |-> "expert"]>>

RECURSIVE ExpertLoop(_, _, _)
ExpertLoop(i, experts_end_idx, routed) ==
    IF i >= experts_end_idx THEN << >>
    ELSE ExpertOps(i, routed) \o ExpertLoop(i + 1, experts_end_idx, routed)

\* MoE.forward, lines 400-417, on the worker of rank r
MoE_forward(r, world_size, routed) ==
    ExpertLoop(r * MaxLocalExperts, (r + 1) * MaxLocalExperts, routed)
      \o IfDistributed(world_size, all_reduce("shared_experts.w2"))
      \o IfDistributed(world_size, all_reduce("moe"))

\* Transformer.forward, lines 462-483, on the worker of rank r
WorkerOps(r, world_size, routed) ==
    IfDistributed(world_size, all_reduce("embed"))
      \o IfDistributed(world_size, all_reduce("layers.0.attn.wo"))
      \o IfDistributed(world_size, all_reduce("layers.0.ffn.w2"))
      \o IfDistributed(world_size, all_reduce("layers.1.attn.wo"))
      \o MoE_forward(r, world_size, routed)
      \o IfDistributed(world_size, all_gather("logits"))

Workers == 0..(coll.world_size - 1)
OpsOf(r) == WorkerOps(r, coll.world_size, coll.routed)
Returned(r) == coll.pc[r] > Len(OpsOf(r))
CurrentOp(r) == OpsOf(r)[coll.pc[r]]

\* a worker runs one of its experts
ExpertCall(r) ==
    /\ coll.phase = "forward"
    /\ r \in Workers /\ ~Returned(r)
    /\ CurrentOp(r).kind = "local"
    /\ coll' = [coll EXCEPT !.pc[r] = @ + 1]
    /\ UNCHANGED <<engine, lin, mgr, conf, shard>>

\* every worker has made the same kind of call and the call returns on all
Collective ==
    /\ coll.phase = "forward"
    /\ coll.world_size > 1
    /\ \A r \in Workers : ~Returned(r) /\ CurrentOp(r).kind # "local"
    /\ \A r \in Workers : CurrentOp(r).kind = CurrentOp(0).kind
    /\ coll' = [coll EXCEPT !.pc = [r \in Workers |-> coll.pc[r] + 1],
                            !.done = Append(coll.done, [r \in Workers |-> CurrentOp(r).name])]
    /\ UNCHANGED <<engine, lin, mgr, conf, shard>>

InitColl ==
    /\ tf = [state |-> "uninit", args |-> NoArgs, freqs_cis |-> NoTable]
    /\ k_cache = NoCache
    /\ v_cache = NoCache
    /\ ncalls = 0
    /\ last = NoLast
    /\ rope = Idle /\ gate = Idle /\ quant = Idle /\ gen = Idle /\ mla = Idle
    /\ lin = Idle /\ mgr = Idle /\ conf = Idle /\ shard = Idle
    /\ \E ws \in 1..MaxWorld :
         \E routed \in SUBSET (0..(ws * MaxLocalExperts - 1)) :
            coll = [phase |-> "forward", world_size |-> ws, routed |-> routed,
                    pc |-> [r \in 0..(ws - 1) |-> 1], done |-> << >>]

NextColl ==
    \/ \E r \in 0..(MaxWorld - 1) : ExpertCall(r)
    \/ Collective

SpecColl == InitColl /\ [][NextColl]_vars /\ WF_vars(NextColl)

(***************************************************************************)
(* The sharded layers of one forward call: ParallelEmbedding and MoE.      *)
(*                                                                         *)
(* A tensor row is kept as the sum it stands for: a function that gives    *)
(* each term the number of times it was added.  The terms of an embedding  *)
(* are the rows of the unsharded table.  The terms of a MoE output are     *)
(* <<"expert", e, k>>, the output of expert e on the token times the       *)
(* weight of the token's slot k, and <<"shared", u, 0>>, the product of    *)
(* w2 of the shared experts with input feature u.  Every worker holds      *)
(* MaxPart table rows, MaxLocalExperts experts and MaxPart input features  *)
(* of w2.  indices[t] is the row of the gate's indices for token t: the    *)
(* expert of each slot.                                                    *)
(***************************************************************************)
MaxPart == 2          \* table rows and w2 input features per worker
MaxShardTokens == 2   \* tokens of the call
MaxTopK == 2          \* n_activated_experts is drawn from 1..MaxTopK

\* [rank * part, (rank + 1) * part): lines 75-77 and 388-390
LocalRange(rank, part) == (rank * part)..((rank + 1) * part - 1)

\* dist.all_reduce: the sum over the workers of their tensors parts[r]
AllReduce(parts) ==
    [t \in DOMAIN parts[0] |->
        [d \in DOMAIN parts[0][t] |->
            IntSum([r \in DOMAIN parts |-> parts[r][t][d]], DOMAIN parts)]]

EmbedRowKept(masked, row, vocab_size) == [d \in 0..(vocab_size - 1) |-> IF d = row THEN 1 ELSE 0]

\* lines 86-88: the row F.embedding looked up, after `y[mask] = 0`
EmbedRow(masked, row, vocab_size) ==
    [d \in 0..(vocab_size - 1) |-> IF ~masked /\ d = row THEN 1 ELSE 0]

\* ParallelEmbedding.forward, lines 81-90, on the worker of the given rank,
\* up to the all_reduce
ParallelEmbedding_local(rank, world_size, vocab_size, tokens) ==
    LET part  == IF world_size = 1 THEN vocab_size ELSE vocab_size \div world_size
        start == IF world_size = 1 THEN 0 ELSE rank * part
        mask  == [t \in DOMAIN tokens |->
                    world_size > 1 /\ (tokens[t] < start \/ tokens[t] >= start + part)]
        x     == [t \in DOMAIN tokens |-> IF mask[t] THEN 0 ELSE tokens[t] - start]
    IN  [t \in DOMAIN tokens |-> EmbedRow(mask[t], start + x[t], vocab_size)]

\* ParallelEmbedding.forward on every worker
ParallelEmbedding_forward(world_size, vocab_size, tokens) ==
    LET parts == [r \in 0..(world_size - 1) |->
                    ParallelEmbedding_local(r, world_size, vocab_size, tokens)]
    IN  IF world_size > 1 THEN AllReduce(parts) ELSE parts[0]

MoETerms(n_routed_experts, topk, inter) ==
    ({"expert"} \X (0..(n_routed_experts - 1)) \X (1..topk)) \cup ({"shared"} \X (0..(inter - 1)) \X {0})

ExpertTokensFirstSlot(i, indices) ==
    {tk \in (DOMAIN indices) \X {1} : indices[tk[1]][tk[2]] = i}

\* line 411: idx, top = torch.where(indices == i)
ExpertTokens(i, indices) ==
    {tk \in (DOMAIN indices) \X (1..MaxTopK) :
        tk[2] \in DOMAIN indices[tk[1]] /\ indices[tk[1]][tk[2]] = i}

\* lines 407-410: the experts the worker runs
Invoked(rank, world_size, n_routed_experts, indices) ==
    {i \in LocalRange(rank, n_routed_experts \div world_size) : ExpertTokens(i, indices) # {}}

\* lines 404-412: y of the worker before the all_reduce
MoE_routed(rank, world_size, terms, n_routed_experts, indices) ==
    [t \in DOMAIN indices |->
        [term \in terms |->
            IF /\ term[1] = "expert"
               /\ term[2] \in Invoked(rank, world_size, n_routed_experts, indices)
               /\ <<t, term[3]>> \in ExpertTokens(term[2], indices)
            THEN 1 ELSE 0]]

\* RowParallelLinear.forward of shared_experts.w2 (lines 159-165): the
\* worker's product over its input features, then the all_reduce
MoE_shared(world_size, terms, inter, tokens) ==
    LET parts == [r \in 0..(world_size - 1) |->
                    [t \in tokens |->
                        [term \in terms |->
                            IF term[1] = "shared" /\ term[2] \in LocalRange(r, inter \div world_size)
                            THEN 1 ELSE 0]]]
    IN  IF world_size > 1 THEN AllReduce(parts) ELSE parts[0]

MoE_returnReducedWithShared(ys, z) ==
    AllReduce([r \in DOMAIN ys |-> [t \in DOMAIN z |-> [d \in DOMAIN z[t] |-> ys[r][t][d] + z[t][d]]]])

\* lines 414-417: all_reduce(y), then y + z
MoE_return(ys, z) ==
    LET y == IF Cardinality(DOMAIN ys) > 1 THEN AllReduce(ys) ELSE ys[0]
    IN  [t \in DOMAIN z |-> [d \in DOMAIN z[t] |-> y[t][d] + z[t][d]]]

\* MoE.forward on world_size workers: what each of them returns
MoE_output(world_size, n_routed_experts, topk, inter, indices) ==
    LET terms == MoETerms(n_routed_experts, topk, inter)
    IN  MoE_return([r \in 0..(world_size - 1) |->
                       MoE_routed(r, world_size, terms, n_routed_experts, indices)],
                   MoE_shared(world_size, terms, inter, DOMAIN indices))

\* the rows torch.topk can give a token: topk distinct experts
IndexRows(n_routed_experts, topk) ==
    {row \in [1..topk -> 0..(n_routed_experts - 1)] :
        \A j, k \in 1..topk : j # k => row[j] # row[k]}

EmbedCall ==
    /\ shard.phase = "input"
    /\ shard' = [shard EXCEPT !.phase = "embedded",
                    !.h = ParallelEmbedding_forward(shard.world_size, shard.vocab_size,
                                                    shard.tokens)]
    /\ UNCHANGED <<engine, lin, mgr, conf, coll>>

MoECall ==
    /\ shard.phase = "embedded"
    /\ shard' = [shard EXCEPT !.phase = "done",
                    !.invoked = [r \in 0..(shard.world_size - 1) |->
                                    Invoked(r, shard.world_size, shard.n_routed_experts,
                                            shard.indices)],
                    !.out = MoE_output(shard.world_size, shard.n_routed_experts, shard.topk,
                                       shard.inter, shard.indices)]
    /\ UNCHANGED <<engine, lin, mgr, conf, coll>>

InitShard ==
    /\ tf = [state |-> "uninit", args |-> NoArgs, freqs_cis |-> NoTable]
    /\ k_cache = NoCache
    /\ v_cache = NoCache
    /\ ncalls = 0
    /\ last = NoLast
    /\ rope = Idle /\ gate = Idle /\ quant = Idle /\ gen = Idle /\ mla = Idle
    /\ lin = Idle /\ mgr = Idle /\ conf = Idle /\ coll = Idle
    /\ \E ws \in 1..MaxWorld, topk \in 1..MaxTopK :
         \E tokens \in [1..MaxShardTokens -> 0..(ws * MaxPart - 1)] :
            \E indices \in [1..MaxShardTokens -> IndexRows(ws * MaxLocalExperts, topk)] :
               shard = [phase |-> "input", world_size |-> ws,
                        vocab_size |-> ws * MaxPart, inter |-> ws * MaxPart,
                        n_routed_experts |-> ws * MaxLocalExperts, topk |-> topk,
                        tokens |-> tokens, indices |-> indices,
                        h |-> << >>, invoked |-> << >>, out |-> << >>]

NextShard == EmbedCall \/ MoECall

SpecShard == InitShard /\ [][NextShard]_vars

(***************************************************************************)
(* Claims.                                                                 *)
(***************************************************************************)
\* the positions of a cache buffer that hold the value written by call id
WrittenBy(buf, id) ==
    {rp \in (DOMAIN buf) \X (DOMAIN buf[0]) : buf[rp[1]][rp[2]] = id}

\* C1: every forward call with start position s and length L, s + L <=
\* max_seq_len (and a batch the cache has rows for), writes the new keys and
\* values into cache positions [s, s+L) of every layer and computes attention
\* over exactly the cache range [0, s+L): the scores range over those keys
\* and every query of the call gets its attention weights.
C1_CacheAccounting ==
    (last.called /\ last.bsz <= tf.args.max_batch_size
                 /\ last.start_pos + last.seqlen <= tf.args.max_seq_len)
    => /\ \A l \in DOMAIN k_cache :
            /\ WrittenBy(k_cache[l], last.id)
                 = (0..(last.bsz - 1)) \X (last.start_pos..(last.start_pos + last.seqlen - 1))
            /\ WrittenBy(v_cache[l], last.id) = WrittenBy(k_cache[l], last.id)
       /\ last.scores = 0..(last.start_pos + last.seqlen - 1)
       /\ DOMAIN last.attn = 0..(last.seqlen - 1)
       /\ \A i \in DOMAIN last.attn : last.attn[i] \subseteq last.scores

\* C7: a forward call that returns gives one logits vector per batch row,
\* of exactly vocab_size entries in vocabulary order (the workers' shards
\* joined by rank), taken at the final input position start_pos + L - 1;
\* and a call from start_pos = 0 returns for every L in 1..max_seq_len,
\* every batch the cache has rows for and every world size.
C7_LogitsFinalPosition ==
    last.called =>
       /\ last.err = "" =>
            /\ last.logits_rows = last.bsz
            /\ last.logits = [j \in 0..(tf.args.vocab_size - 1) |-> j]
            /\ last.logits_pos = last.start_pos + last.seqlen - 1
       /\ (last.start_pos = 0 /\ last.seqlen <= tf.args.max_seq_len
             /\ last.bsz <= tf.args.max_batch_size) => last.err = ""

C7_Witness ==
    /\ last.called /\ last.err = ""
    /\ last.seqlen > 1 /\ last.bsz > 1
    /\ tf.args.world_size > 1

\* C9: the rotary table of a constructed Transformer has max_seq_len rows
\* and qk_rope_head_dim/2 columns, and the buffer changes only at
\* construction: no forward call writes it.
C9_RotaryTableFixed ==
    /\ [](tf.state = "ready" =>
            /\ DOMAIN tf.freqs_cis = 0..(tf.args.max_seq_len - 1)
            /\ \A t \in DOMAIN tf.freqs_cis :
                  DOMAIN tf.freqs_cis[t] = 0..((tf.args.qk_rope_head_dim \div 2) - 1))
    /\ [][tf.freqs_cis' # tf.freqs_cis => tf.state = "uninit"]_vars

C9_Witness ==
    /\ tf.state = "ready" /\ last.called /\ last.err = ""
    /\ ncalls = MaxCalls
    /\ NRows(tf.freqs_cis) = tf.args.max_seq_len

\* C10 as stated: for max_seq_len <= original_seq_len every table entry is
\* the rotation by the rescaled frequency, angle t * freqs[i] / rope_factor.
C10_PureInterpolation ==
    (rope.phase = "done" /\ rope.args.max_seq_len <= rope.args.original_seq_len)
    => \A t \in DOMAIN rope.table : \A i \in DOMAIN rope.table[t] :
          rope.table[t][i][1] * rope.args.rope_factor = t * rope.table[t][i][2]

\* C10 amended: for max_seq_len <= original_seq_len no blend is applied;
\* every table entry is the rotation by the raw frequency, angle
\* t * freqs[i], and the rescaled frequency freqs/rope_factor contributes
\* nothing.
C10_RawFrequencies ==
    (rope.phase = "done" /\ rope.args.max_seq_len <= rope.args.original_seq_len)
    => /\ \A i \in DOMAIN rope.freqs : rope.freqs[i][1] = rope.freqs[i][2]
       /\ \A t \in DOMAIN rope.table : \A i \in DOMAIN rope.table[t] :
             rope.table[t][i][1] = t * rope.table[t][i][2]

C10_Witness ==
    /\ rope.phase = "done"
    /\ rope.args.max_seq_len <= rope.args.original_seq_len
    /\ rope.args.max_seq_len >= 2
    /\ rope.args.rope_factor >= 2
    /\ rope.args.corr_low2 < rope.args.corr_high2

\* the group of expert i in gate configuration c
GroupOf(c, i) == i \div (c.n_routed_experts \div c.n_groups)

\* a configuration whose shapes Gate.forward accepts
GateValid(c) ==
    /\ c.topk <= c.n_routed_experts
    /\ c.n_groups > 1 =>
          /\ c.n_routed_experts % c.n_groups = 0
          /\ c.topk_groups <= c.n_groups
          /\ c.has_bias => c.n_routed_experts \div c.n_groups >= 2

\* C2: for every token and score vector Gate.forward selects exactly
\* n_activated_experts expert indices, distinct and each in
\* [0, n_routed_experts); it does so for every configuration whose shapes
\* it accepts.
C2_ExactlyTopK ==
    gate.phase = "done" =>
       /\ gate.out.err = "none" =>
            /\ Cardinality(gate.out.indices) = gate.cfg.topk
            /\ gate.out.indices \subseteq 0..(gate.cfg.n_routed_experts - 1)
            /\ DOMAIN gate.out.weights = gate.out.indices
       /\ GateValid(gate.cfg) => gate.out.err = "none"

C2_Witness ==
    /\ gate.phase = "done" /\ gate.out.err = "none"
    /\ gate.cfg.topk > 1 /\ gate.cfg.topk < gate.cfg.n_routed_experts
    /\ gate.cfg.n_groups > 1

\* the groups kept are n_limited_groups highest-scoring groups and every
\* selected expert belongs to one of them
SelectedWithinTopGroups ==
    /\ Cardinality(gate.out.kept) = gate.cfg.topk_groups
    /\ \A g \in gate.out.kept : \A h \in (DOMAIN gate.out.group_scores) \ gate.out.kept :
          RatLeq(gate.out.group_scores[h], gate.out.group_scores[g])
    /\ \A i \in gate.out.indices : GroupOf(gate.cfg, i) \in gate.out.kept

\* C3: with grouping enabled, for every configuration, every selected
\* expert belongs to one of the n_limited_groups highest-scoring groups.
C3_WithinTopGroups ==
    (gate.phase = "done" /\ gate.out.err = "none" /\ gate.cfg.n_groups > 1)
    => SelectedWithinTopGroups

\* C3 holds of the configurations whose n_activated_experts is at most
\* n_limited_groups times the group size.
C3_WithinTopGroupsWhenTheyFit ==
    (gate.phase = "done" /\ gate.out.err = "none" /\ gate.cfg.n_groups > 1
       /\ gate.cfg.topk <= gate.cfg.topk_groups * (gate.cfg.n_routed_experts \div gate.cfg.n_groups))
    => SelectedWithinTopGroups

C3_Witness ==
    /\ gate.phase = "done" /\ gate.out.err = "none" /\ gate.cfg.n_groups > 1
    /\ gate.cfg.topk_groups < gate.cfg.n_groups
    /\ gate.cfg.topk = gate.cfg.topk_groups * (gate.cfg.n_routed_experts \div gate.cfg.n_groups)
    /\ gate.cfg.topk > 1
    /\ \E g \in gate.out.kept : \E h \in (DOMAIN gate.out.group_scores) \ gate.out.kept :
          ~RatLeq(gate.out.group_scores[g], gate.out.group_scores[h])

\* the weights of the selected experts are numbers
WeightsAreNumbers(w) == \A i \in DOMAIN w : w[i].kind = "num"

\* sigmoid: the weights are numbers that sum to one before the
\* multiplication by route_scale and to route_scale after it; softmax: each
\* weight is route_scale times the gathered softmax score, not renormalized
RenormalizedIffSigmoid ==
    /\ gate.cfg.score_func = "sigmoid" =>
          /\ WeightsAreNumbers(gate.out.pre) /\ WeightsAreNumbers(gate.out.weights)
          /\ RatEq(RatSum([i \in gate.out.indices |-> gate.out.pre[i].q], gate.out.indices),
                   <<1, 1>>)
          /\ RatEq(RatSum([i \in gate.out.indices |-> gate.out.weights[i].q], gate.out.indices),
                   <<gate.cfg.route_scale, 1>>)
    /\ gate.cfg.score_func = "softmax" =>
          \A i \in gate.out.indices :
             IF i \in gate.out.original.ninf THEN gate.out.weights[i].kind = "ninf"
             ELSE /\ gate.out.weights[i].kind = "num"
                  /\ RatEq(gate.out.weights[i].q,
                           <<gate.cfg.route_scale * Softmax(gate.logits)[i][1],
                             Softmax(gate.logits)[i][2]>>)

\* C4: with sigmoid scoring the weights of every call that returns sum to
\* one before the multiplication by route_scale (to route_scale after it);
\* with softmax scoring no renormalization is applied.
C4_SigmoidWeightsSumToOne ==
    (gate.phase = "done" /\ gate.out.err = "none") => RenormalizedIffSigmoid

\* C4 holds of the calls in which no selected expert lies in a masked-out
\* group of a gate without bias.
C4_SumToOneUnlessMaskedSelected ==
    (gate.phase = "done" /\ gate.out.err = "none"
       /\ (gate.cfg.has_bias \/ gate.cfg.n_groups = 1 \/
             gate.cfg.topk <= gate.cfg.topk_groups * (gate.cfg.n_routed_experts \div gate.cfg.n_groups)))
    => RenormalizedIffSigmoid

C4_Witness ==
    /\ gate.phase = "done" /\ gate.out.err = "none"
    /\ gate.cfg.score_func = "sigmoid"
    /\ gate.cfg.topk > 1 /\ gate.cfg.topk < gate.cfg.n_routed_experts
    /\ \E i \in gate.out.indices : \E j \in gate.out.indices :
          ~RatEq(gate.out.pre[i].q, gate.out.pre[j].q)

\* C5: for every tensor act_quant accepts, weight_dequant applied to the
\* values and per-block scales act_quant returned yields a tensor, each
\* element of which differs from the input's by at most max|t| / 127 taken
\* over the element's block.
C5_RoundTripWithinBlockBound ==
    quant.phase = "dequantized" =>
       /\ quant.d.err = "none"
       /\ \A i \in DOMAIN quant.x :
             Abs(quant.d.out127[i] - 127 * quant.x[i])
                <= BlockMaxAbs(quant.x, BlockOf(i, quant.block_size), quant.block_size)

\* C5 holds of the tensors of one block or of rows of block_size elements
\* whose blocks are zero or reach 127e-8 in magnitude.
C5_RoundTripOfRowBlocks ==
    (quant.phase = "dequantized"
       /\ (Cardinality(DOMAIN quant.q.scale127) = 1 \/ quant.shape[2] = quant.block_size)
       /\ \A b \in DOMAIN quant.q.scale127 :
             \/ BlockMaxAbs(quant.x, b, quant.block_size) = 0
             \/ BlockMaxAbs(quant.x, b, quant.block_size) >= 127 * UnitsPerEps)
    => /\ quant.d.err = "none"
       /\ \A i \in DOMAIN quant.x :
             Abs(quant.d.out127[i] - 127 * quant.x[i])
                <= BlockMaxAbs(quant.x, BlockOf(i, quant.block_size), quant.block_size)

C5_RowBlocksWitness ==
    /\ quant.phase = "dequantized"
    /\ quant.shape = <<2, 2>> /\ quant.block_size = 2
    /\ quant.d.err = "none"
    /\ \E i \in DOMAIN quant.x : quant.d.out127[i] # 127 * quant.x[i]

\* the new tokens of a sequence are at most max_new_tokens, and eos_id is
\* nowhere among them but at their end
StopsAtBudgetOrEos(i) ==
    /\ Len(gen.new[i]) <= gen.max_new_tokens
    /\ \A k \in 1..Len(gen.new[i]) : gen.new[i][k] = gen.eos_id => k = Len(gen.new[i])

\* C6: a call of generate with max_new_tokens = N and eos_id = E ends; each
\* sequence gets at most N new tokens and none after its first E; a finished
\* sequence takes no more tokens, and the loop runs only while some sequence
\* of the batch is unfinished.
C6_GenerationTerminates ==
    /\ <>(gen.phase \in {"returned", "error"})
    /\ [](gen.phase \in {"loop", "returned", "error"} =>
             \A i \in DOMAIN gen.new : StopsAtBudgetOrEos(i))
    /\ [](gen.phase = "loop" => Active(gen.finished) # {})
    /\ [](gen.phase = "returned" => Active(gen.finished) = {})
    /\ [][\A i \in DOMAIN gen.new : gen.finished[i] => gen.new'[i] = gen.new[i]]_vars

\* a batch of two returned: one sequence stopped at E before its budget, the
\* other went on to the budget
C6_Witness ==
    /\ gen.phase = "returned"
    /\ Len(gen.prompt_lens) = 2
    /\ gen.max_new_tokens = 3
    /\ Len(gen.new[1]) = 1 /\ gen.new[1][1] = gen.eos_id
    /\ Len(gen.new[2]) = 3 /\ \A k \in 1..3 : gen.new[2][k] # gen.eos_id

\* C8: an instance of each attention strategy, given the same weights and
\* the same sequence of (start_pos, L) calls on the same inputs, either both
\* raise at the same statement or both return, and then their attention
\* outputs are equal at every position of the call.
C8_NaiveEqualsAbsorbed ==
    mla.phase = "ready" =>
       /\ mla.naive.err = mla.absorb.err
       /\ DOMAIN mla.naive.out = DOMAIN mla.absorb.out
       /\ \A s \in DOMAIN mla.naive.out : RatEq(mla.naive.out[s], mla.absorb.out[s])

\* a decode step after a prefill: three keys are attended to with unequal
\* weights, and the output is not zero
C8_Witness ==
    /\ mla.phase = "ready"
    /\ mla.ncalls = 2 /\ mla.start_pos = 2 /\ mla.seqlen = 1
    /\ mla.naive.err = "" /\ mla.absorb.err = ""
    /\ mla.absorb.out[0][1] # 0
    /\ mla.absorb.out[0][2] > 3
    /\ \E t \in 0..1 : mla.kv_cache[t] # mla.kv_cache[2]

\* the call multiplied, each weight element by the scale entry of its block
ScaledByBlock(out, shape) ==
    /\ out.err = ""
    /\ DOMAIN out.applied = 0..(shape[1] * shape[2] - 1)
    /\ \A i \in DOMAIN out.applied : out.applied[i] = BlockScaleOf(i, shape)

\* the dispatch rule of linear on the weight and in the environment of lin
DispatchRule ==
    /\ ElementSize(lin.w.dtype) > 1 =>
          lin.out = [path |-> "F.linear", err |-> "", x_quantized |-> FALSE,
                     applied |-> << >>]
    /\ (ElementSize(lin.w.dtype) = 1 /\ lin.w.has_scale) =>
          /\ (lin.env.triton /\ lin.env.gemm_impl = "fp8") =>
                (lin.out.path = "fp8_gemm" /\ lin.out.x_quantized)
          /\ ~(lin.env.triton /\ lin.env.gemm_impl = "fp8") =>
                (lin.out.path = "F.linear" /\ ~lin.out.x_quantized
                   /\ ScaledByBlock(lin.out, lin.w.shape))
    /\ (ElementSize(lin.w.dtype) = 1 /\ lin.out.err = "") =>
          ScaledByBlock(lin.out, lin.w.shape)

\* C11: a dense weight goes to the standard multiply; a one-byte weight with
\* a scale goes to act_quant and fp8_gemm exactly when the fused kernel is
\* available and selected, and otherwise is dequantized with its scale and
\* multiplied by the standard multiply with the activation left as it is; a
\* one-byte weight is never multiplied without its scale.
C11_LinearDispatch == lin.out # NoLinOut => DispatchRule

\* C11 holds of every weight when the kernel module was imported, and of
\* the int8 weights of a single block when the fallback kernels were.
C11_DispatchOfSingleBlock ==
    (lin.out # NoLinOut
       /\ (lin.env.kernel = "kernel" \/
             (lin.w.dtype # "float8" /\ ScaleShape(lin.w.shape) = <<1, 1>>)))
    => DispatchRule

\* the host lacks the accelerator or the fused kernels
Degraded(host) == ~host.cuda \/ ~host.triton_installed

\* what C14 promises of a degraded host once the model module is imported
DegradedBehaviour ==
    /\ (lin.out # NoLinOut /\ ElementSize(lin.w.dtype) = 1) => lin.out.path # "fp8_gemm"
    /\ lin.layout # "" => lin.layout = "naive"
    /\ lin.status.triton_available = lin.host.triton_installed
    /\ lin.status.device = (IF lin.host.cuda THEN "cuda" ELSE "cpu")
    /\ (~lin.status.triton_available \/ lin.status.device = "cpu")

\* C14: on a host without the accelerator or without the fused kernels the
\* import succeeds, no call of linear on a one-byte weight takes fp8_gemm,
\* an MLA registers the naive cache layout, and the status report shows the
\* downgrade in triton_available and device.
C14_DegradedHostTakesDequantizedPath ==
    (lin.phase = "imported" /\ Degraded(lin.host)) => DegradedBehaviour

\* C14 holds of the hosts on which the import of the kernels fails: triton
\* is not installed and the manager is main.py, which injects nothing.
C14_DegradedWhenKernelImportFails ==
    (lin.phase = "imported" /\ ~lin.host.triton_installed /\ lin.host.manager = "main")
    => DegradedBehaviour

C14_KernelImportFailsWitness ==
    /\ lin.phase = "imported" /\ ~lin.host.triton_installed /\ lin.host.manager = "main"
    /\ lin.env.gemm_impl = "fp8" /\ lin.env.attn_impl = "absorb"
    /\ lin.out.path = "F.linear" /\ lin.out.err = "" /\ lin.w.dtype = "int8"
    /\ lin.layout = "naive"

\* C15: a forward call with start_pos + seqlen > max_seq_len raises and
\* returns no logits, leaves the instance usable, and leaves the cache of
\* every layer exactly as it was when the call started.
C15_OverflowLeavesCacheIntact ==
    [][(last'.id # last.id /\ last'.start_pos + last'.seqlen > tf.args.max_seq_len)
         => /\ last'.err # ""
            /\ last'.logits_rows = 0 /\ DOMAIN last'.logits = {}
            /\ k_cache' = k_cache /\ v_cache' = v_cache
            /\ tf' = tf]_vars

\* a second call overflowed on a cache that holds the first call's writes
C15_Witness ==
    /\ last.id = 2 /\ last.err = "apply_rotary_emb"
    /\ last.start_pos < tf.args.max_seq_len
    /\ last.start_pos + last.seqlen > tf.args.max_seq_len
    /\ \A l \in DOMAIN k_cache : WrittenBy(k_cache[l], 1) # {} /\ WrittenBy(k_cache[l], 2) = {}

\* C16: the branch that MLA.forward takes is the one whose buffers
\* MLA.__init__ registered, whatever attn_impl holds when forward is called.
C16_StrategyFixedAtConstruction ==
    lin.exec.strategy # "" => (lin.exec.strategy = lin.layout /\ lin.exec.err = "")

\* C16 holds while attn_impl is not assigned between construction and call,
\* and always when the import of the kernels failed.
C16_StrategyFixedWithoutKernels ==
    (lin.exec.strategy # "" /\ ~lin.env.triton)
    => (lin.exec.strategy = lin.layout /\ lin.exec.err = "")

C16_WithoutKernelsWitness ==
    /\ lin.exec.strategy = "naive" /\ lin.layout = "naive"
    /\ ~lin.env.triton /\ lin.env.attn_impl = "absorb"

\* what C20 says of a call that returned
MaskedAsCausal ==
    /\ last.mask_made <=> last.seqlen > 1
    /\ last.seqlen > 1 =>
          \A i \in DOMAIN last.attn :
             last.attn[i] = {t \in last.scores : t <= last.start_pos + i}
    /\ last.seqlen = 1 => last.attn = [i \in {0} |-> 0..last.start_pos]

\* C20: a forward call within the cache makes a causal mask exactly when
\* its length is greater than 1 and adds it to the scores; a call of
\* several tokens weights only the keys up to each query's position, and a
\* call of one token weights every cache position in [0, start_pos + 1).
C20_MaskOnlyForPrefill ==
    (last.called /\ last.bsz <= tf.args.max_batch_size
                 /\ last.start_pos + last.seqlen <= tf.args.max_seq_len)
    => (last.err = "" /\ MaskedAsCausal)

\* C20 holds of every call that returns: the calls of one token, and the
\* calls of several tokens at start_pos = 0.
C20_MaskOfReturnedCalls ==
    (last.called /\ last.err = "") => (MaskedAsCausal /\ (last.seqlen > 1 => last.start_pos = 0))

\* a decode call of one token after an earlier call, attending to the
\* positions written before it and to its own
C20_ReturnedDecodeWitness ==
    /\ last.id = 2 /\ last.err = "" /\ last.seqlen = 1 /\ last.start_pos > 1
    /\ ~last.mask_made
    /\ last.attn[0] = 0..last.start_pos
    /\ \A l \in DOMAIN k_cache : WrittenBy(k_cache[l], 1) # {}

\* the combinations that C17 calls invalid
InvalidCombination(a) ==
    \/ a.world_size > 1 /\ a.vocab_size % a.world_size # 0
    \/ a.world_size > 1 /\ a.n_heads % a.world_size # 0
    \/ a.world_size > 1 /\ a.n_routed_experts % a.world_size # 0
    \/ a.n_routed_experts % a.n_expert_groups # 0

\* C17: a configuration whose vocab_size, n_heads or n_routed_experts is
\* not divisible by a world size above 1, or whose n_routed_experts is not
\* divisible by n_expert_groups, fails construction: no instance of it is
\* ever constructed, and none fails in forward for it.
C17_InvalidConfigFailsConstruction ==
    InvalidCombination(conf.args) => conf.phase \in {"args", "failed"}

\* C17 holds of vocab_size and n_routed_experts against the world size:
\* those two are asserted at construction.
C17_ShardedCountsAsserted ==
    (conf.args.world_size > 1
       /\ (conf.args.vocab_size % conf.args.world_size # 0
             \/ conf.args.n_routed_experts % conf.args.world_size # 0))
    => conf.phase \in {"args", "failed"}

C17_ShardedCountsWitness ==
    /\ conf.phase = "failed" /\ conf.site = "MoE"
    /\ conf.args.n_routed_experts % conf.args.world_size # 0

\* the calls of torch.distributed in a list of operations, in order
CollectivesOf(ops) == SelectSeq(ops, LAMBDA op : op.kind # "local")

\* C18: with more than one worker, every worker makes the same calls of
\* torch.distributed in the same order during a forward call, whichever
\* experts received tokens, each call is joined by all workers for the same
\* tensor, and the forward call returns on every worker.
C18_SameCollectivesOnEveryWorker ==
    /\ [](coll.world_size > 1 =>
            /\ \A r \in Workers : CollectivesOf(OpsOf(r)) = CollectivesOf(OpsOf(0))
            /\ \A i \in DOMAIN coll.done : \A r \in Workers : coll.done[i][r] = coll.done[i][0])
    /\ <>(\A r \in Workers : Returned(r))

\* two workers have returned from a forward call in which one of them ran
\* both of its experts and the other none
C18_Witness ==
    /\ coll.world_size = 2 /\ coll.routed = {0, 1}
    /\ \A r \in Workers : Returned(r)
    /\ Len(coll.done) = 7
    /\ coll.done[6][1] = "moe" /\ coll.done[7][0] = "logits"

C13_WeightFailureFatal ==
    (mgr.phase = "serving" /\ mgr.env.weights # "ok") =>
       /\ ~mgr.model_loaded
       /\ \A h \in Handlers : ~mgr.h[h].load_ok
       /\ mgr.generated = {}

\* C13 holds of the manager of main.py.
C13_WeightFailureFatalInMain ==
    (mgr.phase = "serving" /\ mgr.env.weights # "ok" /\ mgr.env.variant = "main") =>
       /\ ~mgr.model_loaded
       /\ \A h \in Handlers : ~mgr.h[h].load_ok
       /\ mgr.generated = {}

\* C19: generate is invoked only while model_loaded is true; a generate_text
\* call on an instance that is not loaded calls load_model first and, when
\* that fails, returns the error without invoking generate and with
\* model_loaded as it was.
C19_GenerateOnlyWhenLoaded ==
    /\ [](mgr.phase = "serving" =>
             /\ \A g \in mgr.generated : g.loaded
             /\ \A h \in Handlers :
                   mgr.h[h].result = "Model failed to load" =>
                      /\ ~mgr.model_loaded
                      /\ mgr.h[h].loads > 0
                      /\ \A g \in mgr.generated : g.by # h)
    /\ [][\A h \in Handlers :
            (mgr.phase = "serving" /\ mgr.h[h].pc = "gen_check"
               /\ ~mgr.model_loaded /\ mgr'.h[h].pc # "gen_check")
            => mgr'.h[h].pc = "load_check"]_vars

\* one generate_text call failed to load and returned the error; another
\* request had found nothing loaded either
C19_Witness ==
    /\ mgr.phase = "serving"
    /\ \E h \in Handlers : mgr.h[h].result = "Model failed to load" /\ mgr.h[h].pc = "done"
    /\ mgr.n_construct > 0

\* the entries of the caches that a step changes, as <<layer, row, position>>
Changed(old, new) ==
    {lrp \in (DOMAIN old) \X (0..(tf.args.max_batch_size - 1)) \X (0..(tf.args.max_seq_len - 1)) :
        new[lrp[1]][lrp[2]][lrp[3]] # old[lrp[1]][lrp[2]][lrp[3]]}

\* every buffer has the size it was constructed with
ConstructionSize(cache) ==
    \A l \in DOMAIN cache :
       /\ DOMAIN cache[l] = 0..(tf.args.max_batch_size - 1)
       /\ \A r \in DOMAIN cache[l] : DOMAIN cache[l][r] = 0..(tf.args.max_seq_len - 1)

\* C21: a forward call with batch size b, start position s and length L
\* changes, in the key and value cache of each layer, only entries of the
\* batch rows [0, b) at the positions [s, s + L), and every buffer keeps the
\* size [max_batch_size, max_seq_len] it was constructed with.
C21_CacheWriteFrame ==
    [][last'.id # last.id =>
         /\ \A lrp \in Changed(k_cache, k_cache') \cup Changed(v_cache, v_cache') :
               /\ lrp[2] < last'.bsz
               /\ last'.start_pos <= lrp[3] /\ lrp[3] < last'.start_pos + last'.seqlen
         /\ ConstructionSize(k_cache') /\ ConstructionSize(v_cache')]_vars

\* a second call wrote its own positions of one row beside the entries of
\* the first call
C21_Witness ==
    /\ last.id = 2 /\ last.err = "" /\ last.start_pos > 0
    /\ last.bsz < tf.args.max_batch_size
    /\ \A l \in DOMAIN k_cache :
          /\ WrittenBy(k_cache[l], 2)
               = (0..(last.bsz - 1)) \X (last.start_pos..(last.start_pos + last.seqlen - 1))
          /\ \E rp \in WrittenBy(k_cache[l], 1) : rp[1] >= last.bsz
          /\ \E rp \in WrittenBy(k_cache[l], 1) : rp[1] < last.bsz

C27_CausalityFromZero ==
    (last.called /\ last.seqlen > 1 /\ last.start_pos = 0
                 /\ last.bsz <= tf.args.max_batch_size
                 /\ last.seqlen <= tf.args.max_seq_len)
    => /\ last.err = ""
       /\ DOMAIN last.attn = 0..(last.seqlen - 1)
       /\ \A i \in DOMAIN last.attn : last.attn[i] = 0..i

C27_FromZeroWitness ==
    /\ last.called /\ last.seqlen > 2 /\ last.start_pos = 0 /\ last.err = ""
    /\ last.attn[1] = {0, 1}

\* the layers whose scores the last call computed
LayersRead ==
    {l \in DOMAIN k_cache : l < last.layer \/ (l = last.layer /\ last.err = "mask_add")}

\* C28: in a session (calls that start at start_pos = 0 and continue each
\* where the previous one returned, with one batch size) every cache entry
\* that attention reads was written by a call of the session; an entry left
\* by an earlier session, or never written, is not read.
C28_NoStaleCacheReads ==
    (last.called /\ last.session > 0) =>
       \A l \in LayersRead : \A r \in 0..(last.bsz - 1) : \A p \in last.scores :
          /\ k_cache[l][r][p] >= last.session
          /\ v_cache[l][r][p] >= last.session

\* a session opened by the second call read its own entries while entries
\* of the first call were left in the rows it read
C28_Witness ==
    /\ last.id = 2 /\ last.session = 2 /\ last.err = ""
    /\ last.scores = 0..(last.seqlen - 1)
    /\ \A l \in DOMAIN k_cache :
          \E rp \in WrittenBy(k_cache[l], 1) : rp[1] < last.bsz /\ rp[2] >= last.seqlen

\* C30: a forward call with a batch size above max_batch_size raises,
\* writes no cache entry and computes no scores, and the caches keep their
\* max_batch_size rows; a call with batch size b <= max_batch_size changes
\* only entries of the batch rows [0, b).
C30_BatchBounded ==
    [][last'.id # last.id =>
         /\ last'.bsz > tf.args.max_batch_size =>
               /\ last'.err # "" /\ last'.scores = {} /\ last'.logits_rows = 0
               /\ k_cache' = k_cache /\ v_cache' = v_cache
         /\ last'.bsz <= tf.args.max_batch_size =>
               \A lrp \in Changed(k_cache, k_cache') \cup Changed(v_cache, v_cache') :
                  lrp[2] < last'.bsz
         /\ \A l \in DOMAIN k_cache' :
               DOMAIN k_cache'[l] = 0..(tf.args.max_batch_size - 1)]_vars

\* a call with one sequence too many was refused on a cache that holds the
\* entries of the first call
C30_Witness ==
    /\ last.id = 2 /\ last.bsz = tf.args.max_batch_size + 1
    /\ last.start_pos + last.seqlen <= tf.args.max_seq_len
    /\ last.err = "cache_write"
    /\ \A l \in DOMAIN k_cache : WrittenBy(k_cache[l], 1) # {} /\ WrittenBy(k_cache[l], 2) = {}

\* C29: once model_loaded is true it stays true, and a load_model call made
\* then returns True without entering the body that reads the config,
\* constructs the model and reads the weights; a load_model call that
\* returns False leaves model_loaded false.
C29_LoadedOnceAndForAll ==
    [][/\ mgr.model_loaded =>
            /\ mgr'.model_loaded
            /\ mgr'.model = mgr.model /\ mgr'.config = mgr.config
            /\ mgr'.n_construct = mgr.n_construct /\ mgr'.n_read = mgr.n_read
            /\ \A h \in Handlers : mgr'.h[h].pc \in LoadPcs => mgr'.h[h].pc = "load_check"
       /\ \A h \in Handlers :
            mgr'.h[h].loads > mgr.h[h].loads =>
               /\ mgr.model_loaded => mgr'.h[h].load_ok
               /\ ~mgr'.h[h].load_ok => ~mgr'.model_loaded]_vars

\* two handlers have called load_model with success and the model was
\* constructed once
C29_Witness ==
    /\ mgr.phase = "serving"
    /\ \A h \in Handlers : mgr.h[h].loads = 1 /\ mgr.h[h].load_ok /\ mgr.h[h].pc = "done"
    /\ mgr.model_loaded /\ mgr.n_construct = 1

\* the flat indices of block b of the quantized tensor
QuantBlock(b) == BlockMembers(b, quant.block_size)

\* C26: act_quant gives every block the scale max(max|block| / 127, 1e-8),
\* which is positive, and every element the integer nearest to x / scale,
\* which lies in [-127, 127]; a block of zeros gets the scale 1e-8 and the
\* values zero.
C26_ActQuantRange ==
    (quant.phase # "input" /\ quant.q.err = "none") =>
       /\ DOMAIN quant.q.values = DOMAIN quant.x
       /\ \A b \in DOMAIN quant.q.scale127 :
             LET sc == quant.q.scale127[b]
             IN  /\ sc > 0 /\ sc >= 127 * UnitsPerEps
                 /\ \A i \in QuantBlock(b) : Abs(quant.x[i]) <= sc
                 /\ sc = 127 * UnitsPerEps \/ \E i \in QuantBlock(b) : Abs(quant.x[i]) = sc
                 /\ \A i \in QuantBlock(b) :
                       /\ quant.q.values[i] \in (-127)..127
                       /\ 2 * Abs(quant.q.values[i] * sc - 127 * quant.x[i]) <= sc
                 /\ (\A i \in QuantBlock(b) : quant.x[i] = 0) =>
                       /\ sc = 127 * UnitsPerEps
                       /\ \A i \in QuantBlock(b) : quant.q.values[i] = 0

\* a block of zeros beside a block whose largest element sets the scale
C26_Witness ==
    /\ quant.phase = "quantized" /\ quant.q.err = "none"
    /\ quant.block_size = 2 /\ quant.shape[1] * quant.shape[2] = 4
    /\ quant.x[0] = 0 /\ quant.x[1] = 0
    /\ quant.q.scale127[0] = 127 * UnitsPerEps
    /\ quant.q.scale127[1] > 127 * UnitsPerEps
    /\ quant.q.values[2] = -127 /\ quant.q.values[3] = 64

\* C22: the weights a gate with a bias returns are gathered from the scores
\* before the bias: they are the weights that the scores without bias give
\* to the selected experts, and a gate that differs only in its bias and
\* selects the same experts returns the same weights.
C22_BiasOnlySelects ==
    (gate.phase = "done" /\ gate.cfg.has_bias /\ gate.out.err = "none") =>
       /\ gate.out.original = [val |-> GateOriginal(gate.cfg, gate.logits), ninf |-> {}]
       /\ \A b \in GateBiasSet(gate.cfg) :
             \A kept \in GateGroupChoices(gate.cfg, gate.logits, b) :
                \A sel \in GateExpertChoices(gate.cfg, gate.logits, b, kept) :
                   sel = gate.out.indices =>
                      Gate_forward(gate.cfg, gate.logits, b, kept, sel).weights
                         = gate.out.weights

\* a gate whose bias raises a selected expert, beside a gate with another
\* bias that selects the same experts and one that selects others
C22_Witness ==
    /\ gate.phase = "done" /\ gate.cfg.has_bias /\ gate.out.err = "none"
    /\ gate.cfg.topk < gate.cfg.n_routed_experts
    /\ \E i \in gate.out.indices : gate.bias[i] > 0
    /\ \E b \in GateBiasSet(gate.cfg) :
          /\ b # gate.bias
          /\ \E kept \in GateGroupChoices(gate.cfg, gate.logits, b) :
                gate.out.indices \in GateExpertChoices(gate.cfg, gate.logits, b, kept)
    /\ \E b \in GateBiasSet(gate.cfg) :
          \A kept \in GateGroupChoices(gate.cfg, gate.logits, b) :
             gate.out.indices \notin GateExpertChoices(gate.cfg, gate.logits, b, kept)

\* the sum C23 gives for token t: each selected expert once, with the weight
\* of its slot, and every term of the shared experts once
MoEFormula(t) ==
    [term \in MoETerms(shard.n_routed_experts, shard.topk, shard.inter) |->
        IF term[1] = "shared" THEN 1
        ELSE IF term[3] \in DOMAIN shard.indices[t] /\ shard.indices[t][term[3]] = term[2]
        THEN 1 ELSE 0]

\* C23: on a single worker the output of MoE.forward for every token is the
\* sum, over the experts the gate selected for it, of weight times expert
\* output, each pair once, plus the output of the shared experts; the
\* experts run are exactly those that some token selected.
C23_MoEOutputFormula ==
    (shard.phase = "done" /\ shard.world_size = 1) =>
       /\ \A t \in DOMAIN shard.indices : shard.out[t] = MoEFormula(t)
       /\ shard.invoked[0] =
             {shard.indices[t][k] : t \in DOMAIN shard.indices, k \in 1..shard.topk}

\* one worker, two tokens with two experts each, in opposite slots
C23_Witness ==
    /\ shard.phase = "done" /\ shard.world_size = 1 /\ shard.topk = 2
    /\ shard.indices[1] = <<0, 1>> /\ shard.indices[2] = <<1, 0>>
    /\ shard.out[1][<<"expert", 0, 1>>] = 1 /\ shard.out[1][<<"expert", 0, 2>>] = 0
    /\ shard.out[2][<<"expert", 0, 2>>] = 1 /\ shard.out[2][<<"shared", 1, 0>>] = 1

\* C24: under sharding the workers' expert ranges are contiguous, disjoint
\* and cover [0, n_routed_experts); a worker runs only experts of its range;
\* every selected (token, expert) pair is computed by exactly one worker;
\* and what every worker returns equals the single-worker output.
C24_ShardedMoEEqualsSingleWorker ==
    (shard.phase = "done" /\ shard.world_size > 1) =>
       LET ws == shard.world_size
           n_local == shard.n_routed_experts \div ws
           terms == MoETerms(shard.n_routed_experts, shard.topk, shard.inter)
       IN  /\ UNION {LocalRange(r, n_local) : r \in 0..(ws - 1)}
                = 0..(shard.n_routed_experts - 1)
           /\ \A r, q \in 0..(ws - 1) :
                 r # q => LocalRange(r, n_local) \cap LocalRange(q, n_local) = {}
           /\ \A r \in 0..(ws - 1) : shard.invoked[r] \subseteq LocalRange(r, n_local)
           /\ \A t \in DOMAIN shard.indices : \A k \in 1..shard.topk :
                 Cardinality({r \in 0..(ws - 1) :
                    MoE_routed(r, ws, terms, shard.n_routed_experts, shard.indices)
                       [t][<<"expert", shard.indices[t][k], k>>] = 1}) = 1
           /\ shard.out = MoE_output(1, shard.n_routed_experts, shard.topk, shard.inter,
                                     shard.indices)

\* two workers, a token routed to one expert of each, and a worker whose
\* second expert no token selected
C24_Witness ==
    /\ shard.phase = "done" /\ shard.world_size = 2 /\ shard.topk = 2
    /\ shard.indices[1] = <<0, 2>>
    /\ shard.invoked[0] = {0} /\ 2 \in shard.invoked[1]
    /\ shard.out[1][<<"expert", 2, 2>>] = 1 /\ shard.out[1][<<"shared", 0, 0>>] = 1

\* C25: with more than one worker every token id lies in the range of
\* exactly one worker, every other worker contributes zeros for it, and the
\* reduced embedding of every token is the row of the unsharded table.
C25_ShardedEmbeddingEqualsLookup ==
    (shard.phase # "input" /\ shard.world_size > 1) =>
       LET ws == shard.world_size
           part == shard.vocab_size \div ws
           local(r) == ParallelEmbedding_local(r, ws, shard.vocab_size, shard.tokens)
       IN  \A t \in DOMAIN shard.tokens :
              /\ Cardinality({r \in 0..(ws - 1) : shard.tokens[t] \in LocalRange(r, part)}) = 1
              /\ \A r \in 0..(ws - 1) :
                    shard.tokens[t] \notin LocalRange(r, part) =>
                       \A d \in DOMAIN local(r)[t] : local(r)[t][d] = 0
              /\ shard.h[t] = [d \in 0..(shard.vocab_size - 1) |->
                                  IF d = shard.tokens[t] THEN 1 ELSE 0]

\* two workers and two tokens, one of each worker's range
C25_Witness ==
    /\ shard.phase = "embedded" /\ shard.world_size = 2
    /\ shard.tokens[1] = 3 /\ shard.tokens[2] = 0
    /\ shard.h[1][3] = 1 /\ shard.h[1][2] = 0 /\ shard.h[2][0] = 1

====
